---- MODULE Spec2Model ----
(***************************************************************************)
(* A model of github.com/minami14/tengor/nn: Shape, Tensor, the layers,    *)
(* the optimizers and the Sequential model.                                *)
(*                                                                         *)
(* float64 values are modelled by floating-point numbers <<m, e>> with a   *)
(* short significand.  Tensors live in a heap: a *Tensor is an index into  *)
(* tensors, so two references to the same tensor are the same index; a     *)
(* tensor whose shape field shares the backing array of a Shape the caller *)
(* holds names that Shape in its sref field.                               *)
(***************************************************************************)
EXTENDS Integers, Sequences, FiniteSets, TLC

\* ---------------------------------------------------------------- bounds
MaxDim == 2
MaxRank == 2
MaxTensors == 3
MaxLayers == 3
MaxBatch == 2
MaxSamples == 5
MaxEpochs == 2
MaxHeap == 40

\* ---------------------------------------------------------------- float64
\* <<m, e>> is the value m * 2^e with m odd and |m| < 2^Precision, <<0, 0>>
\* is zero, and the exponent NonFinite marks +Inf (m = 1), -Inf (m = -1)
\* and NaN (m = 0).  Results are rounded to the nearest representable
\* value, overflow to an infinity and underflow to zero.
Precision == 12
MaxExp == 1024
NonFinite == MaxExp + MaxExp

Abs(x) == IF x < 0 THEN -x ELSE x

Sign(x) == IF x < 0 THEN -1 ELSE IF x = 0 THEN 0 ELSE 1

RECURSIVE Pow2(_)
Pow2(k) == IF k <= 0 THEN 1 ELSE 2 * Pow2(k - 1)

RECURSIVE BitLen(_)
BitLen(n) == IF n = 0 THEN 0 ELSE 1 + BitLen(n \div 2)

NaN == <<0, NonFinite>>
Inf(sign) == <<sign, NonFinite>>
IsFinite(a) == a[2] # NonFinite
IsNaN(a) == a = NaN

RECURSIVE Odd(_, _)
Odd(n, e) == IF n % 2 = 0 THEN Odd(n \div 2, e + 1) ELSE <<n, e>>

\* The float64 nearest to m * 2^e.
Norm(m, e) ==
    IF m = 0 THEN <<0, 0>>
    ELSE LET n == Abs(m)
             k == BitLen(n) - Precision
             r == IF k <= 0 THEN <<n, e>> ELSE <<(n + Pow2(k - 1)) \div Pow2(k), e + k>>
             o == Odd(r[1], r[2])
             top == o[2] + BitLen(o[1])
         IN  IF top > MaxExp THEN Inf(Sign(m))
             ELSE IF top < -MaxExp THEN <<0, 0>>
             ELSE <<Sign(m) * o[1], o[2]>>

R(i) == Norm(i, 0)

RNeg(a) == <<-a[1], a[2]>>

RMul(a, b) ==
    IF ~IsFinite(a) \/ ~IsFinite(b) THEN <<Sign(a[1]) * Sign(b[1]), NonFinite>>
    ELSE Norm(a[1] * b[1], a[2] + b[2])

RDiv(a, b) ==
    IF IsNaN(a) \/ IsNaN(b) THEN NaN
    ELSE IF ~IsFinite(a) THEN (IF ~IsFinite(b) THEN NaN
                               ELSE Inf(a[1] * (IF b[1] < 0 THEN -1 ELSE 1)))
    ELSE IF ~IsFinite(b) THEN <<0, 0>>
    ELSE IF b[1] = 0 THEN (IF a[1] = 0 THEN NaN ELSE Inf(Sign(a[1])))
    ELSE LET k == 2 * Precision + 2 - BitLen(Abs(a[1]))
         IN  Norm(Sign(a[1]) * Sign(b[1]) * ((Abs(a[1]) * Pow2(k)) \div Abs(b[1])),
                  a[2] - b[2] - k)

\* The exact sum of two finite values as <<m, e>>, or the larger operand
\* when the smaller lies below half a unit of its last place.
AddRaw(a, b) ==
    IF a[1] = 0 THEN b
    ELSE IF b[1] = 0 THEN a
    ELSE LET ta == a[2] + BitLen(Abs(a[1]))
             tb == b[2] + BitLen(Abs(b[1]))
         IN  IF ta > tb + Precision + 1 THEN a
             ELSE IF tb > ta + Precision + 1 THEN b
             ELSE IF a[2] >= b[2] THEN <<a[1] * Pow2(a[2] - b[2]) + b[1], b[2]>>
             ELSE <<a[1] + b[1] * Pow2(b[2] - a[2]), a[2]>>

RAdd(a, b) ==
    IF ~IsFinite(a) /\ ~IsFinite(b) THEN (IF a = b THEN a ELSE NaN)
    ELSE IF ~IsFinite(a) THEN a
    ELSE IF ~IsFinite(b) THEN b
    ELSE LET r == AddRaw(a, b) IN Norm(r[1], r[2])

RSub(a, b) == RAdd(a, RNeg(b))

\* a < b; every comparison with NaN is false.
RLt(a, b) ==
    IF IsNaN(a) \/ IsNaN(b) \/ a = b THEN FALSE
    ELSE IF ~IsFinite(a) THEN a[1] < 0
    ELSE IF ~IsFinite(b) THEN b[1] > 0
    ELSE AddRaw(a, RNeg(b))[1] < 0

\* math.Max
RMax(a, b) == IF IsNaN(a) \/ IsNaN(b) THEN NaN ELSE IF RLt(a, b) THEN b ELSE a

\* floor of a finite value below 2^30 in magnitude.
RFloor(a) ==
    IF a[2] >= 0 THEN a[1] * Pow2(a[2])
    ELSE IF -a[2] > 30 THEN (IF a[1] < 0 THEN -1 ELSE 0)
    ELSE a[1] \div Pow2(-a[2])

\* math.Exp, restricted to what the layers need of it: a positive,
\* increasing function with Exp(0) = 1, Exp(-Inf) = 0 and Exp(+Inf) = +Inf
\* (here 2^floor(x)).
MathExp(a) ==
    IF IsNaN(a) THEN NaN
    ELSE IF ~IsFinite(a) THEN (IF a[1] > 0 THEN a ELSE <<0, 0>>)
    ELSE IF a[2] + BitLen(Abs(a[1])) > BitLen(MaxExp)
         THEN (IF a[1] > 0 THEN Inf(1) ELSE <<0, 0>>)
    ELSE Norm(1, RFloor(a))

\* ----------------------------------------------------------------- Shape
Rank(s) == Len(s)

RECURSIVE ElementsFrom(_, _)
ElementsFrom(s, i) == IF i > Len(s) THEN 1 ELSE s[i] * ElementsFrom(s, i + 1)

Elements(s) == ElementsFrom(s, 1)

Equal(s, shape) ==
    /\ Len(s) = Len(shape)
    /\ \A i \in 1..Len(s) : s[i] = shape[i]

\* RawIndex's loop with a stride that is not multiplied by the dimension.
RECURSIVE RawIndexLoopUnitStride(_, _, _, _, _)
RawIndexLoopUnitStride(s, at, i, index, a) ==
    IF i > Len(at) THEN [ok |-> TRUE, v |-> index]
    ELSE IF at[i] >= s[i] THEN [ok |-> FALSE, v |-> 0]
    ELSE RawIndexLoopUnitStride(s, at, i + 1, index + at[i] * a, a)

\* RawIndex's loop with a range check that lets a coordinate equal its
\* dimension.
RECURSIVE RawIndexLoopOffByOne(_, _, _, _, _)
RawIndexLoopOffByOne(s, at, i, index, a) ==
    IF i > Len(at) THEN [ok |-> TRUE, v |-> index]
    ELSE IF at[i] > s[i] THEN [ok |-> FALSE, v |-> 0]
    ELSE RawIndexLoopOffByOne(s, at, i + 1, index + at[i] * a, a * s[i])

\* The loop of RawIndex from position i on, with the running index and
\* stride a; the result is [ok |-> FALSE] for a panic.
RECURSIVE RawIndexLoop(_, _, _, _, _)
RawIndexLoop(s, at, i, index, a) ==
    IF i > Len(at) THEN [ok |-> TRUE, v |-> index]
    ELSE IF at[i] >= s[i] THEN [ok |-> FALSE, v |-> 0]
    ELSE RawIndexLoop(s, at, i + 1, index + at[i] * a, a * s[i])

RawIndex(s, at) ==
    IF Rank(s) # Rank(at) THEN [ok |-> FALSE, v |-> 0]
    ELSE RawIndexLoop(s, at, 1, 0, 1)

\* ------------------------------------------------- Tensor, as a value
\* [shape |-> the dimensions, rawData |-> the flat buffer]; the buffer is
\* 1-based here, so Go's rawData[k] is rawData[k + 1].
Fail == [ok |-> FALSE]
Ok(t) == [ok |-> TRUE, t |-> t]
Panic == [ok |-> FALSE]

\* G of the result r of a call, unless the call panicked; G of a value.
Bind(r, G(_)) == IF r.ok THEN G(r) ELSE Panic
Let(v, G(_)) == G(v)

Zeros(n) == [k \in 1..n |-> R(0)]

\* make([]float64, n) panics for a negative n.
NewTensor(shape) ==
    IF Elements(shape) < 0 THEN Fail
    ELSE Ok([shape |-> shape, rawData |-> Zeros(Elements(shape))])

TensorFromSlice(shape, p) ==
    IF Elements(shape) # Len(p) THEN Fail
    ELSE LET r == NewTensor(shape)
         IN  IF ~r.ok THEN Fail ELSE Ok([shape |-> shape, rawData |-> p])

\* Clone allocates Elements(t.shape) cells and copy() fills as many of them
\* as t.rawData has.
Clone(t) ==
    [shape |-> t.shape,
     rawData |-> [k \in 1..Elements(t.shape) |->
                    IF k <= Len(t.rawData) THEN t.rawData[k] ELSE R(0)]]

\* A ReShape that takes any shape.
ReShapeUnchecked(t, shape) == Ok([shape |-> shape, rawData |-> Clone(t).rawData])

\* The value of t.ReShape(shape); that the result's shape field is the
\* argument's backing array is modelled where the result is stored.
ReShape(t, shape) ==
    IF Elements(t.shape) # Elements(shape) THEN Fail
    ELSE IF Elements(t.shape) < 0 THEN Fail
    ELSE Ok([shape |-> shape, rawData |-> Clone(t).rawData])

\* Get and Set index the buffer with RawIndex; an index outside the
\* buffer is Go's index-out-of-range panic.
Get(t, at) ==
    LET r == RawIndex(t.shape, at)
    IN  IF r.ok /\ r.v >= 0 /\ r.v < Len(t.rawData)
        THEN [ok |-> TRUE, v |-> t.rawData[r.v + 1]]
        ELSE [ok |-> FALSE, v |-> R(0)]

Set(t, a, at) ==
    LET r == RawIndex(t.shape, at)
    IN  IF r.ok /\ r.v >= 0 /\ r.v < Len(t.rawData)
        THEN Ok([t EXCEPT !.rawData[r.v + 1] = a])
        ELSE Fail

MulBroadCast(t, a) ==
    [shape |-> t.shape, rawData |-> [k \in 1..Len(t.rawData) |-> RMul(t.rawData[k], a)]]

DivBroadCast(t, a) ==
    [shape |-> t.shape, rawData |-> [k \in 1..Len(t.rawData) |-> RDiv(t.rawData[k], a)]]

AddBroadCast(t, a) ==
    [shape |-> t.shape, rawData |-> [k \in 1..Len(t.rawData) |-> RAdd(t.rawData[k], a)]]

SubBroadCast(t, a) ==
    [shape |-> t.shape, rawData |-> [k \in 1..Len(t.rawData) |-> RSub(t.rawData[k], a)]]

\* The tensor-tensor operations read tensor.rawData[i] for every i below
\* len(t.rawData): a shorter operand is an index-out-of-range panic.
AddTensor(t, tensor) ==
    IF ~Equal(t.shape, tensor.shape) \/ Len(tensor.rawData) < Len(t.rawData) THEN Fail
    ELSE Ok([shape |-> t.shape,
             rawData |-> [k \in 1..Len(t.rawData) |-> RAdd(t.rawData[k], tensor.rawData[k])]])

SubTensor(t, tensor) ==
    IF ~Equal(t.shape, tensor.shape) \/ Len(tensor.rawData) < Len(t.rawData) THEN Fail
    ELSE Ok([shape |-> t.shape,
             rawData |-> [k \in 1..Len(t.rawData) |-> RSub(t.rawData[k], tensor.rawData[k])]])

MulTensor(t, tensor) ==
    IF ~Equal(t.shape, tensor.shape) \/ Len(tensor.rawData) < Len(t.rawData) THEN Fail
    ELSE Ok([shape |-> t.shape,
             rawData |-> [k \in 1..Len(t.rawData) |-> RMul(t.rawData[k], tensor.rawData[k])]])

DivTensor(t, tensor) ==
    IF ~Equal(t.shape, tensor.shape) \/ Len(tensor.rawData) < Len(t.rawData) THEN Fail
    ELSE Ok([shape |-> t.shape,
             rawData |-> [k \in 1..Len(t.rawData) |-> RDiv(t.rawData[k], tensor.rawData[k])]])

\* res += d for the values of d from position k on.
RECURSIVE SumFrom(_, _, _)
SumFrom(d, k, res) == IF k > Len(d) THEN res ELSE SumFrom(d, k + 1, RAdd(res, d[k]))

Sum(t) == SumFrom(t.rawData, 1, R(0))

RECURSIVE MaxFrom(_, _, _)
MaxFrom(d, k, max) ==
    IF k > Len(d) THEN max
    ELSE MaxFrom(d, k + 1, IF RLt(max, d[k]) THEN d[k] ELSE max)

\* Max reads rawData[0] first: the caller guards Len(rawData) > 0.
Max(t) == MaxFrom(t.rawData, 1, t.rawData[1])

Exp(t) ==
    [shape |-> t.shape, rawData |-> [k \in 1..Len(t.rawData) |-> MathExp(t.rawData[k])]]

\* A k-loop that stores each product instead of adding it to the cell.
RECURSIVE DotCellLast(_, _, _, _, _, _)
DotCellLast(t1, t2, i, j, k, val) ==
    IF k >= t2.shape[1] THEN val
    ELSE DotCellLast(t1, t2, i, j, k + 1, RMul(Get(t1, <<i, k>>).v, Get(t2, <<k, j>>).v))

\* The k-loop of Dot for the cell (i, j) from k on, val being res(i, j) so
\* far: val := res.Get(i, j) + t1.Get(i, k) * t2.Get(k, j).
RECURSIVE DotCell(_, _, _, _, _, _)
DotCell(t1, t2, i, j, k, val) ==
    IF k >= t2.shape[1] THEN val
    ELSE DotCell(t1, t2, i, j, k + 1,
                 RAdd(val, RMul(Get(t1, <<i, k>>).v, Get(t2, <<k, j>>).v)))

Dot(t1, t2) ==
    IF Rank(t1.shape) # 2 \/ Rank(t2.shape) # 2 THEN Fail
    ELSE IF t1.shape[2] # t2.shape[1] THEN Fail
    ELSE IF t1.shape[1] * t2.shape[2] < 0 THEN Fail
    ELSE IF \E i \in 0..(t1.shape[1] - 1), j \in 0..(t2.shape[2] - 1), k \in 0..(t2.shape[1] - 1) :
                ~Get(t1, <<i, k>>).ok \/ ~Get(t2, <<k, j>>).ok THEN Fail
    ELSE LET rows == t1.shape[1]
             cols == t2.shape[2]
         IN  Ok([shape |-> <<rows, cols>>,
                 rawData |-> [n \in 1..(rows * cols) |->
                     DotCell(t1, t2, (n - 1) % rows, (n - 1) \div rows, 0, R(0))]])

Transpose(t) ==
    IF Rank(t.shape) # 2 THEN Fail
    ELSE IF t.shape[1] * t.shape[2] < 0 THEN Fail
    ELSE IF \E i \in 0..(t.shape[1] - 1), j \in 0..(t.shape[2] - 1) : ~Get(t, <<i, j>>).ok THEN Fail
    ELSE LET rows == t.shape[2]
             cols == t.shape[1]
         IN  Ok([shape |-> <<rows, cols>>,
                 rawData |-> [n \in 1..(rows * cols) |->
                     Get(t, <<(n - 1) \div rows, (n - 1) % rows>>).v]])

\* MaxIndex starts from max = -1.0 and index 0 and reads rawData[i] for
\* every i below Elements().
RECURSIVE MaxIndexFrom(_, _, _, _)
MaxIndexFrom(t, i, index, max) ==
    IF i >= Elements(t.shape) THEN index
    ELSE IF RLt(max, t.rawData[i + 1]) THEN MaxIndexFrom(t, i + 1, i, t.rawData[i + 1])
    ELSE MaxIndexFrom(t, i + 1, index, max)

MaxIndex(t) ==
    IF Elements(t.shape) > Len(t.rawData) THEN [ok |-> FALSE, v |-> 0]
    ELSE [ok |-> TRUE, v |-> MaxIndexFrom(t, 0, 0, R(-1))]

\* ------------------------------------------------------------------ state
VARIABLES
    tensors,     \* the heap of *Tensor objects that callers and caches share
    slices,      \* the Shape values (slices) the caller holds
    ret,         \* what the last call returned (or that it panicked)
    inputShape,  \* Sequential.inputShape
    layers,      \* Sequential.layers
    loss,        \* Sequential.loss: <<>> is nil, else <<the Loss instance>>
    buildErr,    \* the error the caller got from its last Build
    xs,          \* the caller's input batch x ([]*Tensor)
    ts,          \* the caller's target batch t
    cur,         \* the batch the last layer call returned to the caller
    fit,         \* the position of a running Fit
    trained,     \* the (startIndex, endIndex) of every Update call of Fit
    optimizers   \* the Optimizer instances a caller created from a factory

vars == <<tensors, slices, ret, inputShape, layers, loss, buildErr, xs, ts, cur, fit, trained, optimizers>>

\* ------------------------------------------------------------------- heap
Dead == [live |-> FALSE, shape |-> <<>>, rawData |-> <<>>, sref |-> 0]
Cell(v) == [live |-> TRUE, shape |-> v.shape, rawData |-> v.rawData, sref |-> 0]
EmptyHeap == [id \in 1..MaxHeap |-> Dead]

\* The tensor behind a reference.
Val(h, id) == [shape |-> h[id].shape, rawData |-> h[id].rawData]
Vals(h, ids) == [i \in 1..Len(ids) |-> Val(h, ids[i])]

FreeIds(h) == {id \in DOMAIN h : ~h[id].live}
MinOf(S) == CHOOSE x \in S : \A y \in S : x <= y

RECURSIVE PutAll(_, _, _, _)
PutAll(h, vs, i, ids) ==
    IF i > Len(vs) THEN [h |-> h, ids |-> ids]
    ELSE LET id == MinOf(FreeIds(h))
         IN  PutAll([h EXCEPT ![id] = Cell(vs[i])], vs, i + 1, Append(ids, id))

\* Tensors no reference reaches are garbage.
Sweep(h, liveIds) == [id \in DOMAIN h |-> IF id \in liveIds THEN h[id] ELSE Dead]

SeqRange(q) == {q[i] : i \in 1..Len(q)}

\* ------------------------------------------------------------- optimizers
SGD(lr) == [kind |-> "sgd", lr |-> lr, momentum |-> R(0)]

\* A factory that does not single out momentum 0.
MomentumSGDAlways(lr, momentum) == [kind |-> "momentum", lr |-> lr, momentum |-> momentum]

MomentumSGD(lr, momentum) ==
    IF momentum = R(0) THEN SGD(lr)
    ELSE [kind |-> "momentum", lr |-> lr, momentum |-> momentum]

\* OptimizerFactory.Create: velocity is <<>> for sgd, which has none.
Create(factory, shape) ==
    IF factory.kind = "sgd"
    THEN [kind |-> "sgd", lr |-> factory.lr, momentum |-> R(0), velocity |-> <<>>]
    ELSE [kind |-> "momentum", lr |-> factory.lr, momentum |-> factory.momentum,
          velocity |-> <<NewTensor(shape).t>>]

sgdUpdate(o, params, grads) ==
    Bind(SubTensor(params, MulBroadCast(grads, o.lr)),
         LAMBDA r : [ok |-> TRUE, o |-> o, params |-> r.t])

\* An Update whose velocity starts from zero at every call.
momentumSGDUpdateFresh(o, params, grads) ==
    Bind(SubTensor(MulBroadCast(o.velocity[1], R(0)), MulBroadCast(grads, o.lr)), LAMBDA v :
    Bind(AddTensor(params, v.t), LAMBDA r :
        [ok |-> TRUE, o |-> [o EXCEPT !.velocity = <<v.t>>], params |-> r.t]))

momentumSGDUpdate(o, params, grads) ==
    Bind(SubTensor(MulBroadCast(o.velocity[1], o.momentum), MulBroadCast(grads, o.lr)), LAMBDA v :
    Bind(AddTensor(params, v.t), LAMBDA r :
        [ok |-> TRUE, o |-> [o EXCEPT !.velocity = <<v.t>>], params |-> r.t]))

OptimizerUpdate(o, params, grads) ==
    IF o.kind = "sgd" THEN sgdUpdate(o, params, grads) ELSE momentumSGDUpdate(o, params, grads)

\* ----------------------------------------------------------------- layers
\* A layer instance as its constructor leaves it: nil shapes, parameters,
\* optimizers and caches (<<>>).
NewLayer(kind, units, rate) ==
    [kind |-> kind, units |-> units, rate |-> rate,
     inputShape |-> <<>>, outputShape |-> <<>>,
     weight |-> <<>>, bias |-> <<>>, optW |-> <<>>, optB |-> <<>>,
     inputs |-> <<>>, dw |-> <<>>, db |-> <<>>, mask |-> <<>>, outputs |-> <<>>]

inputLayer == NewLayer("input", 0, R(0))
Dense(units) == NewLayer("dense", units, R(0))
Flatten == NewLayer("flatten", 0, R(0))
Dropout(rate) == NewLayer("dropout", 0, rate)
ReLU == NewLayer("relu", 0, R(0))
Sigmoid == NewLayer("sigmoid", 0, R(0))
Softmax == NewLayer("softmax", 0, R(0))

\* rand.Float64() * 0.01 is some value of [0, 0.01); rnd is the sequence of
\* values the generator yields and pos how many were drawn.
WeightVals == {R(0), RDiv(R(1), R(128))}
Draw(rnd, pos, n) == [k \in 1..n |-> rnd[((pos + k - 1) % Len(rnd)) + 1]]

denseInit(l, shape, factory, rnd, pos) ==
    IF Rank(shape) # 1 THEN [ok |-> FALSE, l |-> l, pos |-> pos]
    ELSE LET wShape == <<shape[1], l.units>>
             n == Elements(wShape)
         IN  [ok |-> TRUE, pos |-> pos + n,
              l |-> [l EXCEPT !.inputShape = shape,
                              !.outputShape = <<l.units>>,
                              !.weight = <<[shape |-> wShape, rawData |-> Draw(rnd, pos, n)]>>,
                              !.bias = <<NewTensor(<<l.units>>).t>>,
                              !.optW = <<Create(factory, wShape)>>,
                              !.optB = <<Create(factory, <<l.units>>)>>]]

flattenInit(l, shape, pos) ==
    [ok |-> TRUE, pos |-> pos,
     l |-> [l EXCEPT !.inputShape = shape, !.outputShape = <<Elements(shape)>>]]

softmaxInit(l, shape, pos) ==
    IF Rank(shape) # 1 THEN [ok |-> FALSE, l |-> l, pos |-> pos]
    ELSE [ok |-> TRUE, pos |-> pos, l |-> [l EXCEPT !.inputShape = shape, !.outputShape = shape]]

\* Init of Input, Dropout, ReLU and Sigmoid: the shape passes through.
passInit(l, shape, pos) ==
    [ok |-> TRUE, pos |-> pos, l |-> [l EXCEPT !.inputShape = shape, !.outputShape = shape]]

LayerInit(l, shape, factory, rnd, pos) ==
    CASE l.kind = "dense" -> denseInit(l, shape, factory, rnd, pos)
      [] l.kind = "flatten" -> flattenInit(l, shape, pos)
      [] l.kind = "softmax" -> softmaxInit(l, shape, pos)
      [] OTHER -> passInit(l, shape, pos)

\* ------------------------------------------------------------- Sequential
NoErr == [nil |-> TRUE, layer |-> 0, type |-> ""]
BuildError(i, kind) == [nil |-> FALSE, layer |-> i, type |-> kind]

NewSequential(shape) == <<inputLayer>>

\* Build from the layer at position i (Go index i - 1) on: every Init
\* assigns into the layer it is called on, and the first error returns.
RECURSIVE BuildFrom(_, _, _, _, _, _)
BuildFrom(ls, i, shape, factory, rnd, pos) ==
    IF i > Len(ls) THEN [ls |-> ls, err |-> NoErr]
    ELSE Let(LayerInit(ls[i], shape, factory, rnd, pos), LAMBDA r :
             IF ~r.ok THEN [ls |-> ls, err |-> BuildError(i - 1, ls[i].kind)]
             ELSE BuildFrom([ls EXCEPT ![i] = r.l], i + 1, r.l.outputShape, factory, rnd, r.pos))

CrossEntropyError == [y |-> <<>>, t |-> <<>>]

\* Sequential.Build: the layers as the Init calls left them, the loss
\* assigned only when no Init failed.
Build(ls, shape, oldLoss, newLoss, factory, rnd) ==
    Let(BuildFrom(ls, 1, shape, factory, rnd, 0), LAMBDA r :
        [layers |-> r.ls, err |-> r.err,
         loss |-> IF r.err.nil THEN <<newLoss>> ELSE oldLoss])

AddLayer(ls, layer) == Append(ls, layer)

\* ------------------------------------------------- the layer operations
\* Every operation takes the heap h, the layer l and a batch of tensor
\* references and gives [ok, h, l, out]: the heap and the layer as the call
\* leaves them and the batch it returns; ok is FALSE when it panics.  The
\* per-sample goroutines write disjoint slots and are joined before the
\* return, so their effect is that of the samples taken in order.
Then(r, F(_)) == IF r.ok THEN F(r.t) ELSE Fail
AllOk(rs) == \A i \in 1..Len(rs) : rs[i].ok
TsOf(rs) == [i \in 1..Len(rs) |-> rs[i].t]
Done(h, l, out) == [ok |-> TRUE, h |-> h, l |-> l, out |-> out]

\* A batch of fresh tensors: the values vs are allocated and returned.
Fresh(h, l, rs) ==
    IF ~AllOk(rs) THEN Panic
    ELSE Let(PutAll(h, TsOf(rs), 1, <<>>), LAMBDA p : Done(p.h, l, p.ids))

BroadCast(t, F(_)) ==
    [shape |-> t.shape, rawData |-> [k \in 1..Len(t.rawData) |-> F(t.rawData[k])]]

inputCall(h, l, inputs) == Done(h, l, inputs)
inputForward(h, l, inputs) == Done(h, l, inputs)
inputBackward(h, l, douts) == Done(h, l, douts)

\* input.ReShape(Shape{1, input.shape[0]}).Dot(d.weight).ReShape(d.outputShape).AddTensor(d.bias)
denseOut(l, input) ==
    IF Rank(input.shape) = 0 \/ l.weight = <<>> \/ l.bias = <<>> THEN Fail
    ELSE Then(Then(Then(ReShape(input, <<1, input.shape[1]>>),
                        LAMBDA a : Dot(a, l.weight[1])),
                   LAMBDA b : ReShape(b, l.outputShape)),
              LAMBDA c : AddTensor(c, l.bias[1]))

\* A Call that keeps its batch the way Forward does.
denseCallCaching(h, l, inputs) ==
    Fresh(h, [l EXCEPT !.inputs = inputs],
          [i \in 1..Len(inputs) |-> denseOut(l, Val(h, inputs[i]))])

denseCall(h, l, inputs) ==
    Fresh(h, l, [i \in 1..Len(inputs) |-> denseOut(l, Val(h, inputs[i]))])

denseForward(h, l, inputs) ==
    Fresh(h, [l EXCEPT !.inputs = inputs],
          [i \in 1..Len(inputs) |-> denseOut(l, Val(h, inputs[i]))])

\* dout reshaped to (1, units), as the worker of Backward uses it.
denseDout(dout) ==
    IF Rank(dout.shape) = 0 THEN Fail ELSE ReShape(dout, <<1, dout.shape[1]>>)

\* A dinput computed from the weight as it is stored, not transposed.
denseDxNoTranspose(l, dout) ==
    IF l.weight = <<>> THEN Fail
    ELSE Then(Then(denseDout(dout), LAMBDA d2 : Dot(d2, l.weight[1])),
              LAMBDA dx : ReShape(dx, <<dx.shape[2]>>))

denseDx(l, dout) ==
    IF l.weight = <<>> THEN Fail
    ELSE Then(Then(denseDout(dout),
                   LAMBDA d2 : Then(Transpose(l.weight[1]), LAMBDA wT : Dot(d2, wT))),
              LAMBDA dx : ReShape(dx, <<dx.shape[2]>>))

denseDw(h, l, i, dout) ==
    IF i > Len(l.inputs) THEN Fail
    ELSE LET input == Val(h, l.inputs[i])
         IN  IF Rank(input.shape) = 0 THEN Fail
             ELSE Then(Then(ReShape(input, <<1, input.shape[1]>>), LAMBDA a : Transpose(a)),
                       LAMBDA aT : Then(denseDout(dout), LAMBDA d2 : Dot(aT, d2)))

denseBackward(h, l, douts) ==
    Let([i \in 1..Len(douts) |-> denseDw(h, l, i, Val(h, douts[i]))], LAMBDA dw :
        IF ~AllOk(dw) THEN Panic
        ELSE Fresh(h,
                   [l EXCEPT !.dw = TsOf(dw),
                             !.db = [i \in 1..Len(douts) |-> Clone(Val(h, douts[i]))]],
                   [i \in 1..Len(douts) |-> denseDx(l, Val(h, douts[i]))]))

\* acc.AddTensor(ts[i]) for i from k on.
RECURSIVE AddAll(_, _, _)
AddAll(acc, grads, k) ==
    IF ~acc.ok \/ k > Len(grads) THEN acc
    ELSE AddAll(AddTensor(acc.t, grads[k]), grads, k + 1)

\* An Update that applies the sums of the gradients, not their means.
denseUpdateSum(l) ==
    IF Len(l.dw) = 0 \/ Len(l.db) = 0 \/ Len(l.db) < Len(l.dw) \/ l.optW = <<>> \/ l.optB = <<>>
    THEN Panic
    ELSE Bind(AddAll(NewTensor(l.dw[1].shape), l.dw, 1), LAMBDA dw :
         Bind(AddAll(NewTensor(l.db[1].shape), l.db, 1), LAMBDA db :
         Bind(OptimizerUpdate(l.optW[1], l.weight[1], dw.t), LAMBDA w :
         Bind(OptimizerUpdate(l.optB[1], l.bias[1], db.t), LAMBDA b :
             [ok |-> TRUE,
              l |-> [l EXCEPT !.weight = <<w.params>>, !.optW = <<w.o>>,
                              !.bias = <<b.params>>, !.optB = <<b.o>>]]))))

denseUpdate(l) ==
    IF Len(l.dw) = 0 \/ Len(l.db) = 0 \/ Len(l.db) < Len(l.dw) \/ l.optW = <<>> \/ l.optB = <<>>
    THEN Panic
    ELSE Bind(AddAll(NewTensor(l.dw[1].shape), l.dw, 1), LAMBDA dw :
         Bind(AddAll(NewTensor(l.db[1].shape), l.db, 1), LAMBDA db :
         Bind(OptimizerUpdate(l.optW[1], l.weight[1], DivBroadCast(dw.t, R(Len(l.dw)))), LAMBDA w :
         Bind(OptimizerUpdate(l.optB[1], l.bias[1], DivBroadCast(db.t, R(Len(l.db)))), LAMBDA b :
             [ok |-> TRUE,
              l |-> [l EXCEPT !.weight = <<w.params>>, !.optW = <<w.o>>,
                              !.bias = <<b.params>>, !.optB = <<b.o>>]]))))

\* outputs[i] = input.Clone(); outputs[i].shape = f.outputShape.Clone()
flattenOut(l, input) ==
    IF Elements(input.shape) < 0 THEN Fail
    ELSE Ok([shape |-> l.outputShape, rawData |-> Clone(input).rawData])

flattenCall(h, l, inputs) ==
    Fresh(h, l, [i \in 1..Len(inputs) |-> flattenOut(l, Val(h, inputs[i]))])

flattenForward(h, l, inputs) == flattenCall(h, l, inputs)
flattenBackward(h, l, douts) == Done(h, l, douts)

dropoutCall(h, l, inputs) == Done(h, l, inputs)

\* int(float64(units) * (1 - d.rate)): the conversion truncates toward zero.
Trunc(a) == IF a[1] >= 0 THEN RFloor(a) ELSE -RFloor(RNeg(a))
dropoutActive(l, units) == Trunc(RMul(R(units), RSub(R(1), l.rate)))

\* The positions the loop of Forward may mask in one sample: it draws
\* rand.Intn(units) until `active` distinct positions are masked.
Picks(units, active) ==
    {P \in SUBSET (0..(units - 1)) : Cardinality(P) = IF active < 0 THEN 0 ELSE active}

\* input.rawData[index] = 0 for the positions of P, in place.
RECURSIVE ZeroAt(_, _, _)
ZeroAt(h, id, P) ==
    IF P = {} THEN h
    ELSE LET j == MinOf(P)
         IN  ZeroAt([h EXCEPT ![id].rawData[j + 1] = R(0)], id, P \ {j})

RECURSIVE dropoutMaskAll(_, _, _, _)
dropoutMaskAll(h, ids, pick, i) ==
    IF i > Len(ids) THEN [ok |-> TRUE, h |-> h]
    ELSE IF \E j \in pick[i] : j >= Len(h[ids[i]].rawData) THEN [ok |-> FALSE]
    ELSE dropoutMaskAll(ZeroAt(h, ids[i], pick[i]), ids, pick, i + 1)

\* pick[i] is the set of positions drawn for sample i.
dropoutForward(h, l, inputs, pick) ==
    IF Len(inputs) = 0 THEN Panic
    ELSE Bind(dropoutMaskAll(h, inputs, pick, 1), LAMBDA r :
             Done(r.h,
                  [l EXCEPT !.mask = [i \in 1..Len(inputs) |->
                                         [j \in 1..Elements(Val(h, inputs[1]).shape) |->
                                             (j - 1) \in pick[i]]]],
                  inputs))

\* A Backward that passes the gradients through as they are.
dropoutBackwardKeep(h, l, douts) == Done(h, l, douts)

dropoutBackward(h, l, douts) ==
    IF Len(douts) > Len(l.mask) THEN Panic
    ELSE Bind(dropoutMaskAll(h, douts,
                             [i \in 1..Len(douts) |->
                                 {j - 1 : j \in {k \in 1..Len(l.mask[i]) : l.mask[i][k]}}],
                             1),
              LAMBDA r : Done(r.h, l, douts))

\* output := NewTensor(input.shape); output.rawData[j] = math.Max(input.rawData[j], 0)
reluOut(input) ==
    IF Elements(input.shape) < 0 \/ Elements(input.shape) > Len(input.rawData) THEN Fail
    ELSE Ok([shape |-> input.shape,
             rawData |-> [j \in 1..Elements(input.shape) |-> RMax(input.rawData[j], R(0))]])

reluMask(input) ==
    [j \in 1..Elements(input.shape) |-> ~RLt(R(0), RMax(input.rawData[j], R(0)))]

reluCall(h, l, inputs) ==
    Fresh(h, l, [i \in 1..Len(inputs) |-> reluOut(Val(h, inputs[i]))])

\* A Forward that builds the mask but returns copies of its inputs.
reluForwardNoMax(h, l, inputs) ==
    Fresh(h, [l EXCEPT !.mask = [i \in 1..Len(inputs) |-> reluMask(Val(h, inputs[i]))]],
          [i \in 1..Len(inputs) |-> Ok(Clone(Val(h, inputs[i])))])

reluForward(h, l, inputs) ==
    Let([i \in 1..Len(inputs) |-> reluOut(Val(h, inputs[i]))], LAMBDA outs :
        IF ~AllOk(outs) THEN Panic
        ELSE Fresh(h, [l EXCEPT !.mask = [i \in 1..Len(inputs) |-> reluMask(Val(h, inputs[i]))]],
                   outs))

reluDx(l, i, dout) ==
    LET d == Clone(dout)
        n == Elements(d.shape)
    IN  IF i > Len(l.mask) THEN Fail
        ELSE IF n > Len(l.mask[i]) THEN Fail
        ELSE Ok([d EXCEPT !.rawData = [j \in 1..n |-> IF l.mask[i][j] THEN R(0) ELSE d.rawData[j]]])

reluBackward(h, l, douts) ==
    Fresh(h, l, [i \in 1..Len(douts) |-> reluDx(l, i, Val(h, douts[i]))])

\* 1 / (1 + math.Exp(-f))
sigmoidF(f) == RDiv(R(1), RAdd(R(1), MathExp(RNeg(f))))
sigmoidOut(input) == Ok(BroadCast(input, sigmoidF))

sigmoidCall(h, l, inputs) ==
    Fresh(h, l, [i \in 1..Len(inputs) |-> sigmoidOut(Val(h, inputs[i]))])

\* Forward returns s.outputs itself: the cache and the returned batch are
\* the same tensors.
sigmoidForward(h, l, inputs) ==
    Bind(Fresh(h, l, [i \in 1..Len(inputs) |-> sigmoidOut(Val(h, inputs[i]))]),
         LAMBDA r : Done(r.h, [l EXCEPT !.outputs = r.out], r.out))

sigmoidDx(h, l, i, dout) ==
    IF i > Len(l.outputs) THEN Fail
    ELSE LET y == Val(h, l.outputs[i])
         IN  Then(MulTensor(AddBroadCast(MulBroadCast(y, R(-1)), R(1)), y),
                  LAMBDA a : MulTensor(a, dout))

sigmoidBackward(h, l, douts) ==
    Fresh(h, l, [i \in 1..Len(douts) |-> sigmoidDx(h, l, i, Val(h, douts[i]))])

softmaxOut(input) ==
    IF Len(input.rawData) = 0 THEN Fail
    ELSE Let(Exp(SubBroadCast(input, Max(input))), LAMBDA exp :
         Let(Sum(exp), LAMBDA sum :
             Ok(BroadCast(exp, LAMBDA f : RDiv(f, sum)))))

softmaxCall(h, l, inputs) ==
    Fresh(h, l, [i \in 1..Len(inputs) |-> softmaxOut(Val(h, inputs[i]))])

softmaxForward(h, l, inputs) ==
    Bind(Fresh(h, l, [i \in 1..Len(inputs) |-> softmaxOut(Val(h, inputs[i]))]),
         LAMBDA r : Done(r.h, [l EXCEPT !.outputs = r.out], r.out))

\* douts[i] = douts[i].MulTensor(output).AddTensor(output) for every cached
\* output; the slots of douts beyond the cache stay as they are.
softmaxBackward(h, l, douts) ==
    IF Len(l.outputs) > Len(douts) THEN Panic
    ELSE Bind(Fresh(h, l, [i \in 1..Len(l.outputs) |->
                       Then(MulTensor(Val(h, douts[i]), Val(h, l.outputs[i])),
                            LAMBDA a : AddTensor(a, Val(h, l.outputs[i])))]),
              LAMBDA r : Done(r.h, l, [i \in 1..Len(douts) |->
                                          IF i <= Len(l.outputs) THEN r.out[i] ELSE douts[i]]))

LayerCall(h, l, inputs) ==
    CASE l.kind = "input" -> inputCall(h, l, inputs)
      [] l.kind = "dense" -> denseCall(h, l, inputs)
      [] l.kind = "flatten" -> flattenCall(h, l, inputs)
      [] l.kind = "dropout" -> dropoutCall(h, l, inputs)
      [] l.kind = "relu" -> reluCall(h, l, inputs)
      [] l.kind = "sigmoid" -> sigmoidCall(h, l, inputs)
      [] l.kind = "softmax" -> softmaxCall(h, l, inputs)

LayerForward(h, l, inputs, pick) ==
    CASE l.kind = "input" -> inputForward(h, l, inputs)
      [] l.kind = "dense" -> denseForward(h, l, inputs)
      [] l.kind = "flatten" -> flattenForward(h, l, inputs)
      [] l.kind = "dropout" -> dropoutForward(h, l, inputs, pick)
      [] l.kind = "relu" -> reluForward(h, l, inputs)
      [] l.kind = "sigmoid" -> sigmoidForward(h, l, inputs)
      [] l.kind = "softmax" -> softmaxForward(h, l, inputs)

LayerBackward(h, l, douts) ==
    CASE l.kind = "input" -> inputBackward(h, l, douts)
      [] l.kind = "dense" -> denseBackward(h, l, douts)
      [] l.kind = "flatten" -> flattenBackward(h, l, douts)
      [] l.kind = "dropout" -> dropoutBackward(h, l, douts)
      [] l.kind = "relu" -> reluBackward(h, l, douts)
      [] l.kind = "sigmoid" -> sigmoidBackward(h, l, douts)
      [] l.kind = "softmax" -> softmaxBackward(h, l, douts)

LayerUpdate(l) ==
    IF l.kind = "dense" THEN denseUpdate(l) ELSE [ok |-> TRUE, l |-> l]

\* The outcomes of Forward: Dropout's depends on the positions drawn.  With
\* active > units no outcome exists (the drawing loop never ends).
LayerForwardSet(h, l, inputs) ==
    IF l.kind = "dropout" /\ Len(inputs) > 0
    THEN LET units == Elements(Val(h, inputs[1]).shape)
         IN  {dropoutForward(h, l, inputs, pick) :
                 pick \in [1..Len(inputs) -> Picks(units, dropoutActive(l, units))]}
    ELSE {LayerForward(h, l, inputs, <<>>)}

\* ------------------------------------------------------------------- loss
\* math.Log on the values the loss meets: floor(log2(a)) for a finite
\* a > 0, -Inf for 0, NaN for a negative or NaN argument.
MathLog(a) ==
    IF IsNaN(a) \/ a[1] < 0 THEN NaN
    ELSE IF ~IsFinite(a) THEN a
    ELSE IF a[1] = 0 THEN Inf(-1)
    ELSE R(a[2] + BitLen(a[1]) - 1)

Log(t) ==
    [shape |-> t.shape, rawData |-> [k \in 1..Len(t.rawData) |-> MathLog(t.rawData[k])]]

delta == RDiv(R(1), R(10000000))
NilT == [nil |-> TRUE]

\* d := -y[i].AddBroadCast(delta).Log().MulTensor(t[i]).Sum()
crossEntropySample(y, t) == RNeg(Sum(MulTensor(Log(AddBroadCast(y, delta)), t).t))

RECURSIVE SumVals(_, _)
SumVals(ds, k) == IF k > Len(ds) THEN R(0) ELSE RAdd(ds[k], SumVals(ds, k + 1))

\* Whether no worker panics: one worker per target, y[i] beyond len(y) is
\* an index-out-of-range panic and MulTensor panics on unequal shapes.
crossEntropyOk(y, t) ==
    /\ Len(y) >= Len(t)
    /\ \A i \in 1..Len(t) : MulTensor(y[i], t[i]).ok

\* The value Call and Forward return when no worker panics.
crossEntropyCall(y, t) ==
    RDiv(SumVals([i \in 1..Len(t) |-> crossEntropySample(y[i], t[i])], 1), R(Len(t)))

\* The loss instance after Forward: clones of the first len(t) predictions
\* and of the targets.
crossEntropyForward(c, y, t) ==
    IF ~crossEntropyOk(y, t) THEN [ok |-> FALSE]
    ELSE [ok |-> TRUE,
          c |-> [y |-> [i \in 1..Len(y) |-> IF i <= Len(t) THEN Clone(y[i]) ELSE NilT],
                 t |-> [i \in 1..Len(t) |-> Clone(t[i])]]]

\* A Backward that divides the gradients by the number of samples.
crossEntropyBackwardMean(c) ==
    IF Len(c.t) < Len(c.y) \/ \E i \in 1..Len(c.y) : c.y[i] = NilT THEN [ok |-> FALSE]
    ELSE Let([i \in 1..Len(c.y) |-> DivTensor(c.t[i], c.y[i])], LAMBDA ds :
             IF ~AllOk(ds) THEN [ok |-> FALSE]
             ELSE [ok |-> TRUE,
                   d |-> [i \in 1..Len(ds) |->
                             DivBroadCast(MulBroadCast(ds[i].t, R(-1)), R(Len(ds)))]])

\* d[i] = c.t[i].DivTensor(c.y[i]).MulBroadCast(-1)
crossEntropyBackward(c) ==
    IF Len(c.t) < Len(c.y) \/ \E i \in 1..Len(c.y) : c.y[i] = NilT THEN [ok |-> FALSE]
    ELSE Let([i \in 1..Len(c.y) |-> DivTensor(c.t[i], c.y[i])], LAMBDA ds :
             IF ~AllOk(ds) THEN [ok |-> FALSE]
             ELSE [ok |-> TRUE, d |-> [i \in 1..Len(ds) |-> MulBroadCast(ds[i].t, R(-1))]])

\* --------------------------------------------- Sequential: Predict, Update
\* Results are [ok, h, ls, out]: the heap, the layers and the final batch.
RECURSIVE PredictFrom(_, _, _, _)
PredictFrom(h, ls, i, x) ==
    IF i > Len(ls) THEN [ok |-> TRUE, h |-> h, ls |-> ls, out |-> x]
    ELSE Bind(LayerCall(h, ls[i], x),
              LAMBDA r : PredictFrom(r.h, [ls EXCEPT ![i] = r.l], i + 1, r.out))

Predict(h, ls, inputs) == PredictFrom(h, ls, 1, inputs)

\* for _, layer := range s.layers { x = layer.Forward(x) }
RECURSIVE ForwardFrom(_, _, _, _)
ForwardFrom(h, ls, i, x) ==
    IF i > Len(ls) THEN {[ok |-> TRUE, h |-> h, ls |-> ls, out |-> x]}
    ELSE UNION {IF ~r.ok THEN {[ok |-> FALSE]}
                ELSE ForwardFrom(r.h, [ls EXCEPT ![i] = r.l], i + 1, r.out) :
                r \in LayerForwardSet(h, ls[i], x)}

\* for i := len(s.layers) - 1; i >= 0; i-- { dout = Backward(dout); Update() }
RECURSIVE BackwardFrom(_, _, _, _)
BackwardFrom(h, ls, i, dout) ==
    IF i < 1 THEN [ok |-> TRUE, h |-> h, ls |-> ls, out |-> dout]
    ELSE Bind(LayerBackward(h, ls[i], dout), LAMBDA r :
         Bind(LayerUpdate(r.l), LAMBDA u :
             BackwardFrom(r.h, [ls EXCEPT ![i] = u.l], i - 1, r.out)))

\* Sequential.Update for one outcome f of the forward pass; c is the loss.
UpdateAfterForward(f, c, t) ==
    IF ~f.ok \/ c = <<>> THEN [ok |-> FALSE]
    ELSE Bind(crossEntropyForward(c[1], Vals(f.h, f.out), Vals(f.h, t)), LAMBDA lf :
         Bind(crossEntropyBackward(lf.c), LAMBDA lb :
         Let(PutAll(f.h, lb.d, 1, <<>>), LAMBDA p :
         Bind(BackwardFrom(p.h, f.ls, Len(f.ls), p.ids), LAMBDA b :
             [ok |-> TRUE, h |-> b.h, ls |-> b.ls, out |-> b.out, loss |-> <<lf.c>>]))))

SequentialUpdate(h, ls, c, x, t) == {UpdateAfterForward(f, c, t) : f \in ForwardFrom(h, ls, 1, x)}

\* Sequential.Loss: s.loss.Call(y, t), a nil-pointer panic without a loss.
SequentialLoss(c, y, t) ==
    IF c = <<>> \/ ~crossEntropyOk(y, t) THEN [ok |-> FALSE]
    ELSE [ok |-> TRUE, v |-> crossEntropyCall(y, t)]

\* Sequential.Accuracy: the share of the len(t) samples whose prediction
\* and target have the same MaxIndex.
Accuracy(y, t) ==
    IF Len(y) < Len(t) \/ \E i \in 1..Len(t) : ~MaxIndex(y[i]).ok \/ ~MaxIndex(t[i]).ok
    THEN [ok |-> FALSE]
    ELSE [ok |-> TRUE,
          v |-> RDiv(R(Cardinality({i \in 1..Len(t) : MaxIndex(y[i]).v = MaxIndex(t[i]).v})),
                     R(Len(t)))]

\* ------------------------------------------------------ inputs of the runs
RECURSIVE SeqsOf(_, _)
SeqsOf(S, n) == IF n = 0 THEN {<<>>} ELSE {Append(q, e) : q \in SeqsOf(S, n - 1), e \in S}

Shapes == UNION {SeqsOf(1..MaxDim, r) : r \in 1..MaxRank}

Half == RDiv(R(1), R(2))

LayerChoices == {Dense(1), Dense(2), Flatten, Dropout(Half), ReLU, Sigmoid, Softmax}
Factories == {SGD(R(1)), MomentumSGD(R(1), Half)}
RandomStreams == SeqsOf(WeightVals, 2)

NotBuilt == [nil |-> FALSE, layer |-> -1, type |-> "no Build yet"]
NoFit == [pc |-> "idle", epochs |-> 0, batchSize |-> 0, epoch |-> 0, step |-> 0]
NoRet == [op |-> "", ok |-> TRUE]

\* ------------------------------------- the construction API of Sequential
InitBuild ==
    /\ inputShape \in Shapes
    /\ layers = NewSequential(inputShape)
    /\ loss = <<>>
    /\ buildErr = NotBuilt
    /\ ret = [op |-> "NewSequential", ok |-> TRUE]
    /\ tensors = EmptyHeap
    /\ slices = <<>>
    /\ xs = <<>> /\ ts = <<>> /\ cur = <<>>
    /\ fit = NoFit
    /\ trained = <<>>
    /\ optimizers = <<>>

CallAddLayer ==
    \E layer \in LayerChoices :
        /\ Len(layers) < MaxLayers
        /\ layers' = AddLayer(layers, layer)
        /\ ret' = [op |-> "AddLayer", ok |-> TRUE]
        /\ UNCHANGED <<tensors, slices, inputShape, loss, buildErr, xs, ts, cur, fit, trained, optimizers>>

\* The model and the caller after a Build that gave r.
BuildReturns(r) ==
    /\ layers' = r.layers
    /\ loss' = r.loss
    /\ buildErr' = r.err
    /\ ret' = [op |-> "Build", ok |-> r.err.nil]
    /\ UNCHANGED <<tensors, slices, inputShape, xs, ts, cur, fit, trained, optimizers>>

CallBuild ==
    \E factory \in Factories, rnd \in RandomStreams :
        BuildReturns(Build(layers, inputShape, loss, CrossEntropyError, factory, rnd))

NextBuild == CallAddLayer \/ CallBuild

SpecBuild == InitBuild /\ [][NextBuild]_vars

\* C2: a Build that fails returns an error naming the first layer whose
\* Init rejects the propagated shape, and leaves the loss and every layer
\* (shapes, parameters, optimizers) as they were before the call.
C2_FailedBuildCommitsNothing ==
    [][(ret'.op = "Build" /\ ~buildErr'.nil) =>
          /\ buildErr'.layer \in 1..(Len(layers) - 1)
          /\ buildErr'.type = layers[buildErr'.layer + 1].kind
          /\ loss' = loss
          /\ layers' = layers]_vars

\* C3: whenever the caller's last Build succeeded and the loss is set,
\* layer 0 is the Input layer initialised with the model's input shape and
\* every later layer is initialised with its predecessor's output shape.
Built == buildErr.nil /\ loss # <<>>

Initialised(l) == l.kind = "dense" => (l.weight # <<>> /\ l.optW # <<>> /\ l.optB # <<>>)

C3_BuiltChainsShapes ==
    Built =>
        /\ layers[1].kind = "input"
        /\ layers[1].inputShape = inputShape
        /\ \A i \in 2..Len(layers) :
               /\ layers[i].inputShape = layers[i - 1].outputShape
               /\ Initialised(layers[i])

\* ------------------------------------------- the layers and a caller's batches
MaxCalls == 2

Architectures ==
    {[shape |-> <<2>>, add |-> <<Dense(2), Softmax>>],
     [shape |-> <<1, 2>>, add |-> <<Flatten, Dense(1)>>],
     [shape |-> <<2>>, add |-> <<Sigmoid, Dropout(Half)>>],
     [shape |-> <<2>>, add |-> <<Dropout(R(0)), ReLU>>]}

RECURSIVE AddLayers(_, _, _)
AddLayers(ls, add, k) == IF k > Len(add) THEN ls ELSE AddLayers(AddLayer(ls, add[k]), add, k + 1)

\* The samples a caller feeds: (-1, 0, ..) and (1, 2, ..) alternate.
Ramp(n) == [k \in 1..n |-> R(k)]
Dip(n) == [k \in 1..n |-> R(IF k = 1 THEN -1 ELSE 0)]
SampleData(n, i) == IF i % 2 = 0 THEN Ramp(n) ELSE Dip(n)
TargetData(n, i) == [k \in 1..n |-> R(k + i - 1)]

OddShape == <<1>>

LiveIds(x, t, c, ls) ==
    SeqRange(x) \cup SeqRange(t) \cup SeqRange(c)
        \cup UNION {SeqRange(ls[i].inputs) \cup SeqRange(ls[i].outputs) : i \in 1..Len(ls)}

\* The state with the model r = [layers, err, loss] and the batches xv of
\* inputs and tv of targets, both of b samples, on the heap.
InitWith(shape, r, xv, tv) ==
    /\ inputShape = shape
    /\ layers = r.layers
    /\ loss = r.loss
    /\ buildErr = r.err
    /\ tensors = PutAll(EmptyHeap, xv \o tv, 1, <<>>).h
    /\ xs = [i \in 1..Len(xv) |-> i]
    /\ ts = [i \in 1..Len(tv) |-> Len(xv) + i]
    /\ cur = <<>>
    /\ slices = <<>>
    /\ fit = NoFit
    /\ trained = <<>>
    /\ optimizers = <<>>

\* The b samples of shape xshape and their targets, of the output shape of
\* the model r (of tshape while the model has none).
InitBatches(shape, r, xshape, tshape, b) ==
    InitWith(shape, r,
             [i \in 1..b |-> TensorFromSlice(xshape, SampleData(Elements(xshape), i)).t],
             [i \in 1..b |-> TensorFromSlice(tshape, TargetData(Elements(tshape), i)).t])

OutputShapeOr(ls, shape) ==
    IF ls[Len(ls)].outputShape = <<>> THEN shape ELSE ls[Len(ls)].outputShape

InitModel(shape, r, xshape, b) ==
    InitBatches(shape, r, xshape, OutputShapeOr(r.layers, shape), b)

Unbuilt(ls) == [layers |-> ls, err |-> NotBuilt, loss |-> <<>>]

InitLayer ==
    /\ ret = [op |-> "Build", ok |-> TRUE, n |-> 0, layer |-> 0, arg |-> <<>>]
    /\ \E arch \in Architectures, b \in 1..MaxBatch :
         \E xshape \in {arch.shape, OddShape} :
           \/ InitModel(arch.shape, Unbuilt(AddLayers(NewSequential(arch.shape), arch.add, 1)),
                        xshape, b)
           \/ \E factory \in Factories :
                InitModel(arch.shape,
                          Build(AddLayers(NewSequential(arch.shape), arch.add, 1), arch.shape,
                                <<>>, CrossEntropyError, factory, <<RDiv(R(1), R(128)), R(0)>>),
                          xshape, b)

\* A panic in a worker goroutine ends the program: no call follows it.
Running == ret.ok /\ ret.n < MaxCalls

\* The caller's state after a call that gave r = [ok, h, ls, out, c].
Return(op, i, arg, r) ==
    /\ ret' = [op |-> op, ok |-> r.ok, n |-> ret.n + 1, layer |-> i, arg |-> arg]
    /\ IF r.ok
       THEN /\ layers' = r.ls
            /\ loss' = r.c
            /\ cur' = r.out
            /\ tensors' = Sweep(r.h, LiveIds(xs, ts, r.out, r.ls))
       ELSE UNCHANGED <<layers, loss, cur, tensors>>
    /\ UNCHANGED <<slices, inputShape, buildErr, xs, ts, fit, trained, optimizers>>

OfLayer(r, i) ==
    IF r.ok THEN [ok |-> TRUE, h |-> r.h, ls |-> [layers EXCEPT ![i] = r.l], out |-> r.out, c |-> loss]
    ELSE [ok |-> FALSE]

OfUpdate(r) ==
    IF r.ok THEN [ok |-> TRUE, h |-> r.h, ls |-> r.ls, out |-> cur, c |-> r.loss]
    ELSE [ok |-> FALSE]

OfModel(r) ==
    IF r.ok THEN [ok |-> TRUE, h |-> r.h, ls |-> r.ls, out |-> r.out, c |-> loss]
    ELSE [ok |-> FALSE]

\* The batches a caller passes forward (its inputs, or what the last call
\* returned) and backward (its targets as gradients, or the last result).
ForwardBatches == {xs, cur}
BackwardBatches == {ts, cur}

CallLayerCall ==
    \E i \in 1..Len(layers), arg \in ForwardBatches :
        /\ Running
        /\ Return("Call", i, arg, OfLayer(LayerCall(tensors, layers[i], arg), i))

CallLayerForward ==
    \E i \in 1..Len(layers), arg \in ForwardBatches :
        /\ Running
        /\ \E r \in LayerForwardSet(tensors, layers[i], arg) :
               Return("Forward", i, arg, OfLayer(r, i))

CallLayerBackward ==
    \E i \in 1..Len(layers), arg \in BackwardBatches :
        /\ Running
        /\ Return("Backward", i, arg, OfLayer(LayerBackward(tensors, layers[i], arg), i))

CallLayerUpdate ==
    \E i \in 1..Len(layers) :
        /\ Running
        /\ Return("Update", i, <<>>,
                  Bind(LayerUpdate(layers[i]), LAMBDA u :
                      [ok |-> TRUE, h |-> tensors, ls |-> [layers EXCEPT ![i] = u.l],
                       out |-> cur, c |-> loss]))

CallPredict ==
    \E arg \in ForwardBatches :
        /\ Running
        /\ Return("Predict", 0, arg, OfModel(Predict(tensors, layers, arg)))

CallSequentialUpdate ==
    /\ Running
    /\ \E r \in SequentialUpdate(tensors, layers, loss, xs, ts) :
           Return("SequentialUpdate", 0, xs, OfUpdate(r))

NextLayer ==
    \/ CallLayerCall
    \/ CallLayerForward
    \/ CallLayerBackward
    \/ CallLayerUpdate
    \/ CallPredict
    \/ CallSequentialUpdate

SpecLayer == InitLayer /\ [][NextLayer]_vars

\* C1: every tensor a caller, a layer cache or a returned batch refers to
\* has a buffer as long as the product of the dimensions of its shape.
C1_BufferMatchesShape ==
    \A id \in DOMAIN tensors :
        tensors[id].live => Len(tensors[id].rawData) = Elements(tensors[id].shape)

\* A batch valid for the initialised layer l: the model is built and every
\* tensor of the batch has the layer's input shape and a buffer to match.
ValidBatch(l, batch) ==
    /\ Built
    /\ batch # <<>>
    /\ \A k \in 1..Len(batch) :
           /\ tensors[batch[k]].shape = l.inputShape
           /\ Len(tensors[batch[k]].rawData) = Elements(l.inputShape)

\* Two states of a layer that differ at most in the per-batch caches.
SameButCaches(l1, l2) ==
    [l1 EXCEPT !.inputs = <<>>, !.mask = <<>>, !.outputs = <<>>]
        = [l2 EXCEPT !.inputs = <<>>, !.mask = <<>>, !.outputs = <<>>]

\* What a Forward step on a valid batch must satisfy: the batch it returns
\* has the values and shapes of what Call gives on the same batch, and the
\* layer changed in its caches only.
CallGives(c) == c.ok /\ Vals(tensors', cur') = Vals(c.h, c.out)

ForwardAsCall ==
    /\ CallGives(LayerCall(tensors, layers[ret'.layer], ret'.arg))
    /\ SameButCaches(layers'[ret'.layer], layers[ret'.layer])

\* C5 as stated: Forward returns what Call returns, for every variant.
C5_ForwardEqualsCall ==
    [][(ret'.op = "Forward" /\ ret'.ok /\ ValidBatch(layers[ret'.layer], ret'.arg))
          => ForwardAsCall]_vars

\* C5, amended: Forward returns what Call returns for Input, Dense,
\* Flatten, ReLU, Sigmoid and Softmax (Dropout's Forward masks, its Call
\* does not).
C5_ForwardEqualsCallButDropout ==
    [][(/\ ret'.op = "Forward" /\ ret'.ok
        /\ layers[ret'.layer].kind # "dropout"
        /\ ValidBatch(layers[ret'.layer], ret'.arg))
          => ForwardAsCall]_vars

\* A Dense layer's Forward returned on a valid batch of MaxBatch samples and
\* cached it.
C5_Witness ==
    /\ ret.op = "Forward" /\ ret.ok
    /\ layers[ret.layer].kind = "dense"
    /\ layers[ret.layer].inputs = ret.arg
    /\ Len(cur) = MaxBatch
    /\ ValidBatch(layers[ret.layer], ret.arg)

\* Tensors that exist before and after a step are the same then as before.
TensorsUntouched ==
    \A id \in DOMAIN tensors :
        (tensors[id].live /\ tensors'[id].live) => tensors'[id] = tensors[id]

\* C6: Predict on a built model leaves every layer (parameters, caches,
\* optimizers), the loss and every existing tensor as they were.
C6_PredictHasNoEffect ==
    [][(ret'.op = "Predict" /\ Built) =>
          /\ layers' = layers
          /\ loss' = loss
          /\ TensorsUntouched]_vars

\* Predict returned on a built model while a Dense layer held the inputs
\* its last Forward cached.
C6_Witness ==
    /\ ret.op = "Predict" /\ ret.ok
    /\ Built
    /\ cur # <<>>
    /\ \E i \in 1..Len(layers) : layers[i].kind = "dense" /\ layers[i].inputs # <<>>

\* C7: no layer or loss operation changes the buffer or the shape of a
\* tensor that exists already.
C7_OperationsLeaveTensorsAlone == [][TensorsUntouched]_vars

\* floor(units * (1 - rate)) for a rate of [0, 1], in exact arithmetic.
ExactActive(units, rate) ==
    IF rate[1] = 0 THEN units
    ELSE (units * (Pow2(-rate[2]) - rate[1])) \div Pow2(-rate[2])

\* The buffer of the tensor id after the step is its buffer before with
\* zero at the positions of mask, and mask has units positions.
MaskedBy(id, mask, units) ==
    /\ Len(mask) = units
    /\ tensors'[id].shape = tensors[id].shape
    /\ tensors'[id].rawData = [j \in 1..units |-> IF mask[j] THEN R(0) ELSE tensors[id].rawData[j]]

DropoutStep(op) ==
    /\ ret'.op = op
    /\ layers[ret'.layer].kind = "dropout"
    /\ ValidBatch(layers[ret'.layer], ret'.arg)

\* C17: Dropout.Forward zeroes exactly floor(units * (1 - rate)) distinct
\* positions of every sample and records them in the sample's mask; the
\* Backward that follows zeroes the gradient of sample i at exactly the
\* positions of mask i and leaves its other values unchanged.
C17_DropoutMasksMatch ==
    [][/\ DropoutStep("Forward") =>
              /\ ret'.ok
              /\ Len(layers'[ret'.layer].mask) = Len(ret'.arg)
              /\ \A k \in 1..Len(ret'.arg) :
                     /\ MaskedBy(ret'.arg[k], layers'[ret'.layer].mask[k],
                                 Elements(layers[ret'.layer].inputShape))
                     /\ Cardinality({j \in 1..Len(layers'[ret'.layer].mask[k]) :
                                        layers'[ret'.layer].mask[k][j]})
                            = ExactActive(Elements(layers[ret'.layer].inputShape),
                                          layers[ret'.layer].rate)
       /\ (/\ DropoutStep("Backward")
           /\ Len(layers[ret'.layer].mask) = Len(ret'.arg)
           /\ \A k \in 1..Len(ret'.arg) :
                  Len(layers[ret'.layer].mask[k]) = Elements(layers[ret'.layer].inputShape)) =>
              /\ ret'.ok
              /\ layers'[ret'.layer].mask = layers[ret'.layer].mask
              /\ \A k \in 1..Len(ret'.arg) :
                     MaskedBy(ret'.arg[k], layers[ret'.layer].mask[k],
                              Elements(layers[ret'.layer].inputShape))]_vars

\* A Backward of a full batch through a Dropout(1/2) whose Forward masked
\* one of the two positions of the first sample: that gradient is zeroed,
\* the other is not.
C17_Witness ==
    /\ ret.op = "Backward" /\ ret.ok
    /\ layers[ret.layer].kind = "dropout" /\ layers[ret.layer].rate = Half
    /\ Len(ret.arg) = MaxBatch /\ Len(layers[ret.layer].mask) = MaxBatch
    /\ Len(layers[ret.layer].mask[1]) = 2
    /\ \E j1, j2 \in 1..2 :
           /\ layers[ret.layer].mask[1][j1] /\ ~layers[ret.layer].mask[1][j2]
           /\ tensors[ret.arg[1]].rawData[j1] = R(0)
           /\ tensors[ret.arg[1]].rawData[j2] # R(0)

\* How many samples the layer l holds of its last Forward.
CacheSize(l) ==
    CASE l.kind = "dense" -> Len(l.inputs)
      [] l.kind \in {"dropout", "relu"} -> Len(l.mask)
      [] l.kind \in {"sigmoid", "softmax"} -> Len(l.outputs)
      [] OTHER -> 0

\* C26: Backward of a Dense, Dropout, ReLU, Sigmoid or Softmax layer of a
\* Built model fails when the layer holds no Forward cache of as many
\* samples as the batch of gradients it is given.
C26_BackwardNeedsItsForward ==
    [][(/\ ret'.n = ret.n + 1 /\ ret'.op = "Backward"
        /\ buildErr.nil
        /\ layers[ret'.layer].kind \in {"dense", "dropout", "relu", "sigmoid", "softmax"}
        /\ CacheSize(layers[ret'.layer]) # Len(ret'.arg))
       => ~ret'.ok]_vars

\* C29: Backward of a layer of a Built model, given gradients of the
\* layer's output shape, returns as many gradients, each of the layer's
\* input shape.
C29_BackwardGivesInputShapedGradients ==
    [][(/\ ret'.n = ret.n + 1 /\ ret'.op = "Backward" /\ ret'.ok
        /\ buildErr.nil
        /\ \A k \in 1..Len(ret'.arg) :
               tensors[ret'.arg[k]].shape = layers[ret'.layer].outputShape)
       => /\ Len(cur') = Len(ret'.arg)
          /\ \A k \in 1..Len(cur') :
                 tensors'[cur'[k]].shape = layers[ret'.layer].inputShape]_vars

\* ---------------------------------------------------------- Sequential.Fit
\* Fit runs as a process: fit.pc is "epoch" at the test of the outer loop,
\* "step" at the test of the inner loop, "done" after the return and
\* "panic" when a call inside it panicked.  trained logs the arguments of
\* every s.Update call Fit makes.
FitArchitectures ==
    {[shape |-> <<2>>, add |-> <<Dense(2), Softmax>>],
     [shape |-> <<2>>, add |-> <<Sigmoid, Dropout(Half)>>]}

InitFit ==
    /\ ret = [op |-> "Build", ok |-> TRUE]
    /\ \E arch \in FitArchitectures, n \in 0..MaxSamples :
           InitModel(arch.shape,
                     Build(AddLayers(NewSequential(arch.shape), arch.add, 1), arch.shape,
                           <<>>, CrossEntropyError, SGD(R(1)), <<RDiv(R(1), R(128)), R(0)>>),
                     arch.shape, n)

\* steps := len(x) / batchSize
Steps(n, batchSize) == n \div batchSize

\* startIndex := step * batchSize
StartIndexStride1(step, batchSize) == step

StartIndex(step, batchSize) == step * batchSize

\* endIndex := (step + 1) * batchSize
EndIndex(step, batchSize) == (step + 1) * batchSize

\* x[startIndex:endIndex], as a sequence of references.
Slice(q, startIndex, endIndex) == SubSeq(q, startIndex + 1, endIndex)

FitPanic ==
    /\ fit' = [fit EXCEPT !.pc = "panic"]
    /\ ret' = [op |-> "Fit", ok |-> FALSE]
    /\ UNCHANGED <<tensors, slices, inputShape, layers, loss, buildErr, xs, ts, cur, trained, optimizers>>

\* Predict, Loss and Accuracy on the batch (x, t): whether none panics.
Evaluated(p, t) ==
    /\ p.ok
    /\ SequentialLoss(loss, Vals(p.h, p.out), Vals(p.h, t)).ok
    /\ Accuracy(Vals(p.h, p.out), Vals(p.h, t)).ok

Evaluate(x, t) == Evaluated(Predict(tensors, layers, x), t)

CallFit ==
    \E epochs \in 0..MaxEpochs, batchSize \in 0..(MaxBatch + 1) :
        /\ fit.pc = "idle"
        /\ fit' = [pc |-> "epoch", epochs |-> epochs, batchSize |-> batchSize,
                   epoch |-> 0, step |-> 0]
        /\ ret' = [op |-> "Fit", ok |-> TRUE]
        /\ UNCHANGED <<tensors, slices, inputShape, layers, loss, buildErr, xs, ts, cur, trained, optimizers>>

\* for epoch := 0; epoch < epochs; epoch++ { steps := len(x) / batchSize
FitEpoch ==
    /\ fit.pc = "epoch"
    /\ IF fit.epoch >= fit.epochs
       THEN /\ fit' = [fit EXCEPT !.pc = "done"]
            /\ UNCHANGED <<tensors, slices, ret, inputShape, layers, loss, buildErr,
                           xs, ts, cur, trained, optimizers>>
       ELSE IF fit.batchSize = 0 THEN FitPanic
       ELSE /\ fit' = [fit EXCEPT !.pc = "step", !.step = 0]
            /\ UNCHANGED <<tensors, slices, ret, inputShape, layers, loss, buildErr,
                           xs, ts, cur, trained, optimizers>>

\* The body of the inner loop: Predict, Loss and Accuracy on the batch,
\* then s.Update on it.
FitStep ==
    /\ fit.pc = "step"
    /\ fit.step < Steps(Len(xs), fit.batchSize)
    /\ LET startIndex == StartIndex(fit.step, fit.batchSize)
           endIndex == EndIndex(fit.step, fit.batchSize)
       IN  IF endIndex > Len(xs) \/ endIndex > Len(ts) \/ startIndex > endIndex THEN FitPanic
           ELSE LET x == Slice(xs, startIndex, endIndex)
                    t == Slice(ts, startIndex, endIndex)
                IN  IF ~Evaluate(x, t) THEN FitPanic
                    ELSE \E u \in SequentialUpdate(tensors, layers, loss, x, t) :
                           IF ~u.ok THEN FitPanic
                           ELSE /\ layers' = u.ls
                                /\ loss' = u.loss
                                /\ tensors' = Sweep(u.h, LiveIds(xs, ts, <<>>, u.ls))
                                /\ trained' = Append(trained, [epoch |-> fit.epoch, x |-> x, t |-> t])
                                /\ fit' = [fit EXCEPT !.step = fit.step + 1]
                                /\ UNCHANGED <<slices, ret, inputShape, buildErr, xs, ts, cur, optimizers>>

\* After the inner loop: Predict, Loss and Accuracy on all of x and t.
FitEpochEnd ==
    /\ fit.pc = "step"
    /\ fit.step >= Steps(Len(xs), fit.batchSize)
    /\ IF ~Evaluate(xs, ts) THEN FitPanic
       ELSE /\ fit' = [fit EXCEPT !.pc = "epoch", !.epoch = fit.epoch + 1]
            /\ UNCHANGED <<tensors, slices, ret, inputShape, layers, loss, buildErr,
                           xs, ts, cur, trained, optimizers>>

NextFit == CallFit \/ FitEpoch \/ FitStep \/ FitEpochEnd

SpecFit == InitFit /\ [][NextFit]_vars

\* C4: with batchSize b >= 1 the k-th training step of an epoch runs on
\* the samples k*b .. (k+1)*b-1 of x and of t, the steps of an epoch come
\* in increasing k, every epoch has floor(n/b) of them, and a Fit that
\* returned made epochs * floor(n/b) steps in all.
C4_FitStepsAreTheFullBatches ==
    (fit.pc # "idle" /\ fit.batchSize >= 1) =>
        LET b == fit.batchSize
            steps == Len(xs) \div b
        IN  /\ \A j \in 1..Len(trained) :
                   /\ steps > 0
                   /\ trained[j].epoch = (j - 1) \div steps
                   /\ trained[j].x = [i \in 1..b |-> xs[((j - 1) % steps) * b + i]]
                   /\ trained[j].t = [i \in 1..b |-> ts[((j - 1) % steps) * b + i]]
            /\ Len(trained) <= fit.epochs * steps
            /\ fit.pc = "epoch" => Len(trained) = fit.epoch * steps
            /\ fit.pc = "step" => Len(trained) = fit.epoch * steps + fit.step
            /\ fit.pc = "done" => Len(trained) = fit.epochs * steps

\* Fit returned after MaxEpochs epochs of more than one step each, with a
\* trailing partial batch it never trained on.
C4_Witness ==
    /\ fit.pc = "done"
    /\ fit.epochs = MaxEpochs
    /\ fit.batchSize >= 2
    /\ Len(xs) % fit.batchSize # 0
    /\ Len(xs) \div fit.batchSize >= 2
    /\ Len(trained) = MaxEpochs * (Len(xs) \div fit.batchSize)

\* --------------------------------------------------- Shape.RawIndex alone
Coords == UNION {SeqsOf(-1..MaxDim, r) : r \in 1..MaxRank}

NoCall == [op |-> "", ok |-> TRUE, n |-> 0, id |-> 0, shape |-> <<>>, at |-> <<>>,
           v |-> 0, f |-> R(0)]

\* The caller holds the Shape values sl and the tensors ts0.
InitCaller(sl, ts0) ==
    /\ slices = sl
    /\ tensors = PutAll(EmptyHeap, ts0, 1, <<>>).h
    /\ ret = NoCall
    /\ inputShape = <<>> /\ layers = <<>> /\ loss = <<>> /\ buildErr = NotBuilt
    /\ xs = <<>> /\ ts = <<>> /\ cur = <<>>
    /\ fit = NoFit
    /\ trained = <<>>
    /\ optimizers = <<>>

InitShape == \E s \in Shapes : InitCaller(<<s>>, <<>>)

\* What the caller sees of a call of op on shape with the coordinates at
\* that gave r = [ok, v].
Returns(op, id, shape, at, r, f) ==
    ret' = [op |-> op, ok |-> r.ok, n |-> ret.n + 1, id |-> id, shape |-> shape, at |-> at,
            v |-> IF r.ok THEN r.v ELSE 0, f |-> f]

CallRawIndexAt(C) ==
    \E k \in 1..Len(slices), at \in C :
        /\ Returns("RawIndex", 0, slices[k], at, RawIndex(slices[k], at), R(0))
        /\ UNCHANGED <<tensors, slices, inputShape, layers, loss, buildErr, xs, ts, cur,
                       fit, trained, optimizers>>

Calling == ret.n < MaxCalls

CallRawIndex == Calling /\ CallRawIndexAt(Coords)

NextShape == CallRawIndex

SpecShape == InitShape /\ [][NextShape]_vars

\* Coordinates inside the shape s.
Valid(s, at) ==
    /\ Len(at) = Len(s)
    /\ \A i \in 1..Len(s) : 0 <= at[i] /\ at[i] < s[i]

ValidCoords(s) == {at \in Coords : Valid(s, at)}

\* c[i] + s[i] * (c[i+1] + s[i+1] * (...))
RECURSIVE Horner(_, _, _)
Horner(s, c, i) == IF i > Len(c) THEN 0 ELSE c[i] + s[i] * Horner(s, c, i + 1)

\* C8: on the coordinates inside a shape s of positive dimensions RawIndex
\* returns c[0] + s[0]*(c[1] + s[1]*(...)), is injective, and takes
\* exactly the values 0 .. Elements(s) - 1.
C8_RawIndexIsABijection ==
    (ret.op = "RawIndex" /\ Valid(ret.shape, ret.at)) =>
        /\ ret.ok
        /\ ret.v = Horner(ret.shape, ret.at, 1)
        /\ \A c1, c2 \in ValidCoords(ret.shape) :
               RawIndex(ret.shape, c1).v = RawIndex(ret.shape, c2).v => c1 = c2
        /\ {RawIndex(ret.shape, c).v : c \in ValidCoords(ret.shape)}
               = 0..(Elements(ret.shape) - 1)

\* RawIndex returned the last index of a shape of MaxRank dimensions that
\* are all MaxDim.
C8_Witness ==
    /\ ret.op = "RawIndex" /\ ret.ok
    /\ Valid(ret.shape, ret.at)
    /\ Len(ret.shape) = MaxRank
    /\ \A i \in 1..Len(ret.shape) : ret.shape[i] = MaxDim
    /\ ret.v = Elements(ret.shape) - 1

\* ------------------------------------------------- a caller of the Tensor API
TensorShapes == {<<2>>, <<1, 2>>}
Coordinates == {<<1>>, <<2>>, <<0, 1>>, <<0, 2>>, <<-1, 1>>}

InitTensor ==
    \E s \in TensorShapes, s2 \in TensorShapes :
        InitCaller(<<s, s2>>, <<TensorFromSlice(s, Ramp(Elements(s))).t>>)

TensorIds == {id \in DOMAIN tensors : tensors[id].live}

TensorRawIndex == Calling /\ CallRawIndexAt(Coordinates)

GetReturns(id, at, r) ==
    Returns("Get", id, tensors[id].shape, at, [ok |-> r.ok, v |-> 0], r.v)

CallGet ==
    \E id \in TensorIds, at \in Coordinates :
        /\ Calling
        /\ GetReturns(id, at, Get(Val(tensors, id), at))
        /\ UNCHANGED <<tensors, slices, inputShape, layers, loss, buildErr, xs, ts, cur,
                       fit, trained, optimizers>>

SetReturns(id, a, at, r) ==
    /\ Returns("Set", id, tensors[id].shape, at, [ok |-> r.ok, v |-> 0], a)
    /\ tensors' = IF r.ok THEN [tensors EXCEPT ![id].rawData = r.t.rawData] ELSE tensors

CallSet ==
    \E id \in TensorIds, at \in Coordinates :
        /\ Calling
        /\ SetReturns(id, R(0), at, Set(Val(tensors, id), R(0), at))
        /\ UNCHANGED <<slices, inputShape, layers, loss, buildErr, xs, ts, cur, fit, trained, optimizers>>

\* res := t.Clone(); res.shape = shape: the result's shape field is the
\* caller's slice k itself.
ReShapeReturns(id, k, r) ==
    /\ Returns("ReShape", id, slices[k], <<>>, [ok |-> r.ok, v |-> 0], R(0))
    /\ tensors' = IF r.ok
                  THEN [tensors EXCEPT ![MinOf(FreeIds(tensors))] =
                           [live |-> TRUE, shape |-> slices[k], rawData |-> r.t.rawData,
                            sref |-> k]]
                  ELSE tensors

CallReShape ==
    \E id \in TensorIds, k \in 1..Len(slices) :
        /\ Calling
        /\ Cardinality(TensorIds) < MaxTensors
        /\ ReShapeReturns(id, k, ReShape(Val(tensors, id), slices[k]))
        /\ UNCHANGED <<slices, inputShape, layers, loss, buildErr, xs, ts, cur, fit, trained, optimizers>>

\* The caller's s[i] = d on its Shape k: every shape field that shares the
\* backing array changes with it.
StoreShape ==
    \E k \in 1..Len(slices), d \in 1..MaxDim :
      \E i \in 1..Len(slices[k]) :
        /\ Calling
        /\ slices' = [slices EXCEPT ![k][i] = d]
        /\ tensors' = [id \in DOMAIN tensors |->
                          IF tensors[id].live /\ tensors[id].sref = k
                          THEN [tensors[id] EXCEPT !.shape[i] = d]
                          ELSE tensors[id]]
        /\ ret' = [NoCall EXCEPT !.op = "StoreShape", !.n = ret.n + 1, !.id = k]
        /\ UNCHANGED <<inputShape, layers, loss, buildErr, xs, ts, cur, fit, trained, optimizers>>

NextTensor == TensorRawIndex \/ CallGet \/ CallSet \/ CallReShape \/ StoreShape

SpecTensor == InitTensor /\ [][NextTensor]_vars

\* Coordinates of another rank than s, or with a coordinate >= its dimension.
Invalid(s, at) ==
    \/ Len(at) # Len(s)
    \/ \E i \in 1..Len(at) : at[i] >= s[i]

\* C9: RawIndex, Get and Set fail on coordinates of the wrong rank or with
\* a coordinate >= the size of its dimension, and a Set that fails leaves
\* every buffer as it was.
C9_BadCoordinatesFail ==
    [][(ret'.op \in {"RawIndex", "Get", "Set"} /\ Invalid(ret'.shape, ret'.at)) =>
          /\ ~ret'.ok
          /\ ret'.op = "Set" => tensors' = tensors]_vars

\* A Set failed on coordinates of the right rank, after an earlier call.
C9_Witness ==
    /\ ret.op = "Set" /\ ~ret.ok
    /\ Len(ret.at) = Len(ret.shape)
    /\ Invalid(ret.shape, ret.at)
    /\ ret.n = MaxCalls

\* C10: no call but a Set on the tensor itself changes the shape or the
\* buffer of a tensor: a tensor ReShape returned keeps its shape when the
\* caller changes the Shape it passed, and its values when the tensor it
\* was made from is Set.
C10_ReShapeResultIsIndependent ==
    [][\A id \in DOMAIN tensors :
          (tensors[id].live /\ ~(ret'.op = "Set" /\ ret'.id = id)) =>
              Val(tensors', id) = Val(tensors, id)]_vars

\* C30: a RawIndex, Get or Set that succeeds was given coordinates inside
\* the shape, so it reaches the element at those coordinates and no other.
C30_OnlyCoordinatesInsideSucceed ==
    (ret.op \in {"RawIndex", "Get", "Set"} /\ ret.ok) => Valid(ret.shape, ret.at)

\* ------------------------------------ a caller of the tensor transformations
OpShapes == {<<2>>, <<4>>, <<1, 2>>, <<2, 1>>, <<2, 2>>, <<2, 3>>, <<3, 2>>}

\* Values below -1 only, rising; one value everywhere.
Below(n) == [k \in 1..n |-> R(k - n - 2)]
Same(n) == [k \in 1..n |-> R(2)]

OpData(n) == {Ramp(n), Dip(n), Below(n), Same(n)}

NoOp == [op |-> "", ok |-> TRUE, n |-> 0, args |-> <<>>, shape |-> <<>>, out |-> 0, v |-> 0,
         from |-> <<>>]

\* The caller holds the tensors 1 and 2 and their shapes.
InitOps ==
    \E s1 \in OpShapes, s2 \in OpShapes :
      \E d1 \in OpData(Elements(s1)), d2 \in {Ramp(Elements(s2)), Dip(Elements(s2))} :
        /\ slices = <<s1, s2>>
        /\ tensors = PutAll(EmptyHeap, <<TensorFromSlice(s1, d1).t, TensorFromSlice(s2, d2).t>>,
                            1, <<>>).h
        /\ ret = [NoOp EXCEPT !.prev = NoOp]
        /\ inputShape = <<>> /\ layers = <<>> /\ loss = <<>> /\ buildErr = NotBuilt
        /\ xs = <<1, 2>> /\ ts = <<>> /\ cur = <<>>
        /\ fit = NoFit
        /\ trained = <<>>
        /\ optimizers = <<>>

\* What the caller sees of the call op(args) with the shape argument shape
\* that gave r: from are the operands as they were at the call, out the
\* tensor returned (at new), prev the call before.
OpReturns(op, args, shape, r, new) ==
    /\ ret' = [op |-> op, ok |-> r.ok, n |-> ret.n + 1, args |-> args, shape |-> shape,
               out |-> IF r.ok /\ "t" \in DOMAIN r THEN new ELSE 0,
               v |-> IF r.ok /\ "v" \in DOMAIN r THEN r.v ELSE 0,
               from |-> Vals(tensors, args),
               prev |-> [k \in DOMAIN NoOp |-> ret[k]]]
    /\ tensors' = IF r.ok /\ "t" \in DOMAIN r THEN [tensors EXCEPT ![new] = Cell(r.t)]
                  ELSE tensors
    /\ cur' = IF r.ok /\ "t" \in DOMAIN r THEN <<new>> ELSE cur
    /\ UNCHANGED <<slices, inputShape, layers, loss, buildErr, xs, ts, fit, trained, optimizers>>

\* ReShape of the caller's first tensor or of the tensor the last call gave.
OpReShape ==
    \E id \in {xs[1]} \cup SeqRange(cur), k \in 1..Len(slices) :
        /\ Calling
        /\ OpReturns("ReShape", <<id>>, slices[k], ReShape(Val(tensors, id), slices[k]),
                     MinOf(FreeIds(tensors)))

OpDot ==
    \E a \in SeqRange(xs), b \in SeqRange(xs) :
        /\ Calling
        /\ OpReturns("Dot", <<a, b>>, <<>>, Dot(Val(tensors, a), Val(tensors, b)),
                     MinOf(FreeIds(tensors)))

OpMaxIndex ==
    \E id \in SeqRange(xs) :
        /\ Calling
        /\ OpReturns("MaxIndex", <<id>>, <<>>, MaxIndex(Val(tensors, id)), 0)

NextOps == OpReShape \/ OpDot \/ OpMaxIndex

SpecOps == InitOps /\ [][NextOps]_vars

\* The last two calls were t.ReShape(s2) and then ReShape(s1) of its
\* result, s1 being the shape of t.
RoundTrip ==
    /\ ret.op = "ReShape" /\ ret.ok
    /\ ret.prev.op = "ReShape" /\ ret.prev.ok
    /\ ret.args = <<ret.prev.out>>
    /\ ret.shape = ret.prev.from[1].shape

\* C11: ReShape fails exactly when the element counts differ, and
\* t.ReShape(s2).ReShape(s1) has the shape s1 of t and the flat values of
\* t, with t unchanged.
C11_ReShapeRoundTrip ==
    /\ ret.op = "ReShape" =>
           (ret.ok <=> Elements(ret.from[1].shape) = Elements(ret.shape))
    /\ RoundTrip =>
           /\ Val(tensors, ret.out) = ret.prev.from[1]
           /\ Val(tensors, ret.prev.args[1]) = ret.prev.from[1]

\* A round trip through a shape other than the tensor's own.
C11_Witness ==
    /\ RoundTrip
    /\ ret.prev.shape # ret.shape
    /\ Len(tensors[ret.out].rawData) > 1

\* The sum over k' <= k of a(i, k') * b(k', j), in increasing k', read from
\* the flat buffers.
RECURSIVE DotSum(_, _, _, _, _)
DotSum(a, b, i, j, k) ==
    IF k < 0 THEN R(0)
    ELSE RAdd(DotSum(a, b, i, j, k - 1),
              RMul(a.rawData[i + a.shape[1] * k + 1], b.rawData[k + b.shape[1] * j + 1]))

Multipliable(a, b) == Rank(a.shape) = 2 /\ Rank(b.shape) = 2 /\ a.shape[2] = b.shape[1]

\* C12: a.Dot(b) fails unless a and b have rank 2 and a.shape[1] equals
\* b.shape[0]; otherwise the result has shape (a.shape[0], b.shape[1]),
\* its element (i, j) is the sum over k of a(i, k) * b(k, j), and a and b
\* are unchanged.
C12_DotIsTheMatrixProduct ==
    ret.op = "Dot" =>
        IF ~Multipliable(ret.from[1], ret.from[2]) THEN ~ret.ok
        ELSE /\ ret.ok
             /\ tensors[ret.out].shape = <<ret.from[1].shape[1], ret.from[2].shape[2]>>
             /\ \A i \in 0..(ret.from[1].shape[1] - 1), j \in 0..(ret.from[2].shape[2] - 1) :
                    Get(Val(tensors, ret.out), <<i, j>>) =
                        [ok |-> TRUE,
                         v |-> DotSum(ret.from[1], ret.from[2], i, j, ret.from[1].shape[2] - 1)]
             /\ Vals(tensors, ret.args) = ret.from

\* A product of two different matrices with an inner dimension above 1.
C12_Witness ==
    /\ ret.op = "Dot" /\ ret.ok
    /\ ret.args[1] # ret.args[2]
    /\ ret.from[1].shape[2] > 1
    /\ Len(tensors[ret.out].rawData) > 1
    /\ \E k \in 1..Len(tensors[ret.out].rawData) : tensors[ret.out].rawData[k] # R(0)

\* C13: MaxIndex returns the smallest flat index that holds the maximum of
\* the values, whatever their sign.
C13_MaxIndexIsTheFirstMaximum ==
    (ret.op = "MaxIndex" /\ ret.from[1].rawData # <<>>) =>
        /\ ret.ok
        /\ ret.v \in 0..(Len(ret.from[1].rawData) - 1)
        /\ \A k \in 1..Len(ret.from[1].rawData) :
               /\ ~RLt(ret.from[1].rawData[ret.v + 1], ret.from[1].rawData[k])
               /\ k < ret.v + 1 => RLt(ret.from[1].rawData[k], ret.from[1].rawData[ret.v + 1])

\* ------------------------------------------------- training one Dense layer
MaxTrainCalls == 4

DenseModels == {[shape |-> <<2>>, units |-> 2], [shape |-> <<1>>, units |-> 1],
                [shape |-> <<2>>, units |-> 1]}
TrainFactories == Factories \cup {SGD(Half)}
WeightStreams == {<<RDiv(R(1), R(128)), R(0)>>, <<RDiv(R(1), R(64)), RDiv(R(1), R(128))>>}

\* Input and Dense(units), built; the caller holds a batch of inputs and
\* a batch of upstream gradients.
InitDense ==
    /\ ret = [op |-> "Build", ok |-> TRUE, n |-> 0, layer |-> 0, arg |-> <<>>]
    /\ \E m \in DenseModels, b \in 1..MaxBatch, factory \in TrainFactories, rnd \in WeightStreams :
           InitModel(m.shape,
                     Build(AddLayer(NewSequential(m.shape), Dense(m.units)), m.shape,
                           <<>>, CrossEntropyError, factory, rnd),
                     m.shape, b)

Training == ret.ok /\ ret.n < MaxTrainCalls

TrainForward ==
    /\ Training
    /\ \E r \in LayerForwardSet(tensors, layers[2], xs) : Return("Forward", 2, xs, OfLayer(r, 2))

TrainBackward ==
    /\ Training
    /\ Return("Backward", 2, ts, OfLayer(LayerBackward(tensors, layers[2], ts), 2))

UpdateGives(u) ==
    IF u.ok THEN [ok |-> TRUE, h |-> tensors, ls |-> [layers EXCEPT ![2] = u.l], out |-> cur,
                  c |-> loss]
    ELSE [ok |-> FALSE]

TrainUpdate ==
    /\ Training
    /\ Return("Update", 2, <<>>, UpdateGives(LayerUpdate(layers[2])))

NextDense == TrainForward \/ TrainBackward \/ TrainUpdate

SpecDense == InitDense /\ [][NextDense]_vars

\* W(i, j) of a weight of shape (in, units), b(j), and the sums the claim
\* names, each added in increasing index.
WeightAt(w, i, j) == w.rawData[i + w.shape[1] * j + 1]

RECURSIVE OutputSum(_, _, _, _)
OutputSum(x, w, j, i) ==
    IF i < 0 THEN R(0) ELSE RAdd(OutputSum(x, w, j, i - 1), RMul(x.rawData[i + 1], WeightAt(w, i, j)))

RECURSIVE InputSum(_, _, _, _)
InputSum(dout, w, i, j) ==
    IF j < 0 THEN R(0)
    ELSE RAdd(InputSum(dout, w, i, j - 1), RMul(dout.rawData[j + 1], WeightAt(w, i, j)))

DenseOutputIs(y, x, w, b) ==
    /\ y.shape = b.shape
    /\ y.rawData = [j \in 1..Len(b.rawData) |->
                       RAdd(OutputSum(x, w, j - 1, w.shape[1] - 1), b.rawData[j])]

DenseGradientsAre(dx, dw, db, x, dout, w) ==
    /\ db = dout
    /\ dw.shape = w.shape
    /\ \A i \in 0..(w.shape[1] - 1), j \in 0..(w.shape[2] - 1) :
           WeightAt(dw, i, j) = RAdd(R(0), RMul(x.rawData[i + 1], dout.rawData[j + 1]))
    /\ dx.shape = x.shape
    /\ dx.rawData = [i \in 1..w.shape[1] |-> InputSum(dout, w, i - 1, w.shape[2] - 1)]

\* C14: Dense.Forward gives output(j) = sum_i x(i) * W(i, j) + b(j) for every
\* sample; Backward gives dbias = dout, dweight(i, j) = x(i) * dout(j) and
\* returns dinput(i) = sum_j dout(j) * W(i, j), x being the sample given to
\* the preceding Forward.
C14_DenseForwardBackward ==
    [][/\ (ret'.op = "Forward" /\ ret'.ok) =>
              \A k \in 1..Len(ret'.arg) :
                  DenseOutputIs(Val(tensors', cur'[k]), Val(tensors, ret'.arg[k]),
                                layers[2].weight[1], layers[2].bias[1])
       /\ (ret'.op = "Backward" /\ ret'.ok) =>
              \A k \in 1..Len(ret'.arg) :
                  DenseGradientsAre(Val(tensors', cur'[k]), layers'[2].dw[k], layers'[2].db[k],
                                    Val(tensors, layers[2].inputs[k]),
                                    Val(tensors, ret'.arg[k]), layers[2].weight[1])]_vars

\* A Backward of a full batch through a 2 x 2 weight that an Update has
\* changed since Build.
C14_Witness ==
    /\ ret.op = "Backward" /\ ret.ok
    /\ Len(ret.arg) = MaxBatch
    /\ layers[2].weight[1].shape = <<2, 2>>
    /\ layers[2].weight[1].rawData[2] # layers[2].weight[1].rawData[3]
    /\ \E k \in 1..4 : RLt(layers[2].weight[1].rawData[k], R(0))

\* The mean of the tensors gs: their sum from zero, in order, over their
\* number.
RECURSIVE MeanSum(_, _, _)
MeanSum(gs, k, n) == IF n = 0 THEN R(0) ELSE RAdd(MeanSum(gs, k, n - 1), gs[n].rawData[k])

Mean(gs) ==
    [shape |-> gs[1].shape,
     rawData |-> [k \in 1..Len(gs[1].rawData) |-> RDiv(MeanSum(gs, k, Len(gs)), R(Len(gs)))]]

\* C15: Dense.Update replaces weight by optW.Update(weight, mean of the
\* per-sample dweight) and bias by optB.Update(bias, mean of the per-sample
\* dbias), each with its own optimizer; with SGD(lr) the new weight is
\* weight - lr * mean(dweight).
C15_DenseUpdateAppliesTheMeans ==
    [][(ret'.op = "Update" /\ ret'.ok) =>
          /\ [ok |-> TRUE, o |-> layers'[2].optW[1], params |-> layers'[2].weight[1]]
                 = OptimizerUpdate(layers[2].optW[1], layers[2].weight[1], Mean(layers[2].dw))
          /\ [ok |-> TRUE, o |-> layers'[2].optB[1], params |-> layers'[2].bias[1]]
                 = OptimizerUpdate(layers[2].optB[1], layers[2].bias[1], Mean(layers[2].db))
          /\ layers[2].optW[1].kind = "sgd" =>
                 layers'[2].weight[1].rawData =
                     [k \in 1..Len(layers[2].weight[1].rawData) |->
                         RSub(layers[2].weight[1].rawData[k],
                              RMul(Mean(layers[2].dw).rawData[k], layers[2].optW[1].lr))]]_vars

\* An Update with SGD(1/2) after the Backward of a full batch whose
\* samples have different gradients.
C15_Witness ==
    /\ ret.op = "Update" /\ ret.ok
    /\ layers[2].optW[1].kind = "sgd" /\ layers[2].optW[1].lr = Half
    /\ Len(layers[2].dw) = MaxBatch
    /\ layers[2].dw[1] # layers[2].dw[MaxBatch]
    /\ layers[2].weight[1].rawData # Draw(<<RDiv(R(1), R(128)), R(0)>>, 0, Len(layers[2].weight[1].rawData))

\* C16: an Update that follows an Update of the same layer with no
\* Backward in between changes neither weight, bias nor optimizer state.
C16_SecondUpdateChangesNothing ==
    [][(ret.op = "Update" /\ ret.ok /\ ret'.op = "Update") =>
          /\ ret'.ok
          /\ layers'[2].weight = layers[2].weight
          /\ layers'[2].bias = layers[2].bias
          /\ layers'[2].optW = layers[2].optW
          /\ layers'[2].optB = layers[2].optB]_vars

\* ------------------------------------------------ a caller of the loss
MaxLossCalls == 3

LossShapes == {<<2>>, <<1, 2>>}

\* Predictions k / (4 * i) and the targets of sample i.
PredictionData(n, i) == [k \in 1..n |-> RDiv(R(k), R(4 * i))]

NoLossCall == [op |-> "", ok |-> TRUE, n |-> 0, v |-> R(0), given |-> [y |-> <<>>, t |-> <<>>]]

\* The caller holds a batch y of predictions and a batch t of targets; the
\* loss is a fresh CrossEntropyError.
InitLoss ==
    \E ly \in 1..MaxBatch, lt \in 1..MaxBatch, ys \in LossShapes, tsh \in LossShapes :
        /\ InitWith(ys, [layers |-> <<>>, err |-> NotBuilt, loss |-> <<CrossEntropyError>>],
                    [i \in 1..ly |-> TensorFromSlice(ys, PredictionData(Elements(ys), i)).t],
                    [i \in 1..lt |-> TensorFromSlice(tsh, TargetData(Elements(tsh), i)).t])
        /\ ret = NoLossCall

\* A panic in a worker goroutine ends the program.
LossRunning == ret.ok /\ ret.n < MaxLossCalls

LossCall ==
    /\ LossRunning
    /\ ret' = IF crossEntropyOk(Vals(tensors, xs), Vals(tensors, ts))
              THEN [ret EXCEPT !.op = "Call", !.n = ret.n + 1,
                               !.v = crossEntropyCall(Vals(tensors, xs), Vals(tensors, ts))]
              ELSE [ret EXCEPT !.op = "Call", !.n = ret.n + 1, !.ok = FALSE]
    /\ UNCHANGED <<tensors, slices, inputShape, layers, loss, buildErr, xs, ts, cur, fit, trained, optimizers>>

\* given keeps the values the batches had when Forward was called.
ForwardGives(r, y, t) ==
    /\ ret' = IF r.ok
              THEN [op |-> "Forward", ok |-> TRUE, n |-> ret.n + 1, v |-> crossEntropyCall(y, t),
                    given |-> [y |-> y, t |-> t]]
              ELSE [ret EXCEPT !.op = "Forward", !.n = ret.n + 1, !.ok = FALSE]
    /\ loss' = IF r.ok THEN <<r.c>> ELSE loss

LossForward ==
    /\ LossRunning
    /\ ForwardGives(crossEntropyForward(loss[1], Vals(tensors, xs), Vals(tensors, ts)),
                    Vals(tensors, xs), Vals(tensors, ts))
    /\ UNCHANGED <<tensors, slices, inputShape, layers, buildErr, xs, ts, cur, fit, trained, optimizers>>

\* The caller writes into its first prediction or its first target.
CallerSet ==
    \E id \in {xs[1], ts[1]} :
        /\ LossRunning
        /\ tensors' = [tensors EXCEPT ![id].rawData =
                          Set(Val(tensors, id), R(3),
                              [k \in 1..Rank(tensors[id].shape) |-> 0]).t.rawData]
        /\ ret' = [ret EXCEPT !.op = "Set", !.n = ret.n + 1]
        /\ UNCHANGED <<slices, inputShape, layers, loss, buildErr, xs, ts, cur, fit, trained, optimizers>>

BackwardGives(r, p) ==
    /\ ret' = [ret EXCEPT !.op = "Backward", !.n = ret.n + 1, !.ok = r.ok]
    /\ tensors' = IF r.ok THEN Sweep(p.h, SeqRange(xs) \cup SeqRange(ts) \cup SeqRange(p.ids))
                  ELSE tensors
    /\ cur' = IF r.ok THEN p.ids ELSE cur

LossBackward ==
    /\ LossRunning
    /\ BackwardGives(crossEntropyBackward(loss[1]),
                     PutAll(tensors,
                            IF crossEntropyBackward(loss[1]).ok
                            THEN crossEntropyBackward(loss[1]).d ELSE <<>>, 1, <<>>))
    /\ UNCHANGED <<slices, inputShape, layers, loss, buildErr, xs, ts, fit, trained, optimizers>>

NextLoss == LossCall \/ LossForward \/ CallerSet \/ LossBackward

SpecLoss == InitLoss /\ [][NextLoss]_vars

\* The batches differ in length, or a prediction and its target in shape.
Mismatched(y, t) ==
    \/ Len(y) # Len(t)
    \/ \E i \in 1..Len(y) : i <= Len(t) /\ tensors[y[i]].shape # tensors[t[i]].shape

\* C18: Call and Forward of the cross entropy fail whenever predictions and
\* targets differ in batch length, either way, or a prediction and its
\* target differ in shape.
C18_LossRejectsMismatchedBatches ==
    [][(ret'.op \in {"Call", "Forward"} /\ Mismatched(xs, ts)) => ~ret'.ok]_vars

\* C19: Backward returns for each sample of the last Forward the tensor
\* -t / y, not divided by the batch size, of the values the predictions and
\* targets had at that Forward, whatever the caller wrote into them since.
C19_LossBackwardUsesForwardValues ==
    [][(ret'.op = "Backward" /\ ret'.ok) =>
          /\ Len(cur') = Len(ret.given.y)
          /\ \A i \in 1..Len(cur') :
                 Val(tensors', cur'[i]) =
                     [shape |-> ret.given.t[i].shape,
                      rawData |-> [k \in 1..Len(ret.given.t[i].rawData) |->
                                      RNeg(RDiv(ret.given.t[i].rawData[k],
                                                ret.given.y[i].rawData[k]))]]]_vars

\* A Backward of a full batch after the caller wrote into a tensor it had
\* given to Forward.
C19_Witness ==
    /\ ret.op = "Backward" /\ ret.ok
    /\ Len(cur) = MaxBatch
    /\ Len(ret.given.y) = MaxBatch
    /\ ret.given.y # Vals(tensors, xs) \/ ret.given.t # Vals(tensors, ts)
    /\ \E k \in 1..2 : RLt(tensors[cur[MaxBatch]].rawData[k], R(0))

\* ------------------------------------------------ a caller of optimizers
MaxOptCalls == 3

OptShapes == {<<2>>, <<1, 2>>}
OptFactories ==
    {MomentumSGD(R(1), Half), MomentumSGD(Half, RDiv(R(1), R(4))), MomentumSGD(Half, R(0))}

\* Two optimizers created by one factory for the shape of the caller's two
\* parameter tensors; the caller also holds two gradients of that shape.
InitOptimizer ==
    \E shape \in OptShapes, factory \in OptFactories :
        /\ tensors = PutAll(EmptyHeap,
                            [i \in 1..4 |->
                                TensorFromSlice(shape,
                                                IF i <= 2 THEN SampleData(Elements(shape), i)
                                                ELSE TargetData(Elements(shape), i - 2)).t],
                            1, <<>>).h
        /\ xs = <<1, 2>> /\ ts = <<3, 4>> /\ cur = <<>>
        /\ optimizers = <<Create(factory, shape), Create(factory, shape)>>
        /\ ret = [op |-> "Create", ok |-> TRUE, n |-> 0, k |-> 0, args |-> <<>>]
        /\ slices = <<>>
        /\ inputShape = <<>> /\ layers = <<>> /\ loss = <<>> /\ buildErr = NotBuilt
        /\ fit = NoFit
        /\ trained = <<>>

OptRunning == ret.ok /\ ret.n < MaxOptCalls

\* params = optimizers[k].Update(params, grads) gave r; the tensor it
\* returns is allocated at new.
UpdateReturns(k, args, r, new) ==
    /\ ret' = [op |-> "Update", ok |-> r.ok, n |-> ret.n + 1, k |-> k, args |-> args]
    /\ optimizers' = IF r.ok THEN [optimizers EXCEPT ![k] = r.o] ELSE optimizers
    /\ tensors' = IF r.ok THEN [tensors EXCEPT ![new] = Cell(r.params)] ELSE tensors
    /\ cur' = IF r.ok THEN <<new>> ELSE cur

\* Update of the caller's parameters, or of those the last Update gave.
OptUpdate ==
    \E k \in 1..Len(optimizers), params \in SeqRange(xs) \cup SeqRange(cur), grads \in SeqRange(ts) :
        /\ OptRunning
        /\ UpdateReturns(k, <<params, grads>>,
                         OptimizerUpdate(optimizers[k], Val(tensors, params), Val(tensors, grads)),
                         MinOf(FreeIds(tensors)))
        /\ UNCHANGED <<slices, inputShape, layers, loss, buildErr, xs, ts, fit, trained>>

NextOptimizer == OptUpdate

SpecOptimizer == InitOptimizer /\ [][NextOptimizer]_vars

\* momentum * velocity - lr * grads, value by value.
NextVelocity(o, g) ==
    [shape |-> o.velocity[1].shape,
     rawData |-> [j \in 1..Len(g.rawData) |->
                     RSub(RMul(o.velocity[1].rawData[j], o.momentum), RMul(g.rawData[j], o.lr))]]

\* C20: a MomentumSGD optimizer starts with a zero velocity of the shape it
\* was created for; Update(params, g) sets velocity to momentum * velocity
\* - lr * g and returns params + velocity as a new tensor, leaving params,
\* g and every other optimizer as they were.
C20_MomentumKeepsItsVelocity ==
    [][/\ ret.n = 0 =>
              \A k \in 1..Len(optimizers) :
                  optimizers[k].kind = "momentum" =>
                      optimizers[k].velocity = <<NewTensor(tensors[xs[k]].shape).t>>
       /\ (ret'.op = "Update" /\ ret'.ok /\ optimizers[ret'.k].kind = "momentum") =>
              /\ optimizers'[ret'.k] =
                     [optimizers[ret'.k] EXCEPT
                         !.velocity = <<NextVelocity(optimizers[ret'.k],
                                                     Val(tensors, ret'.args[2]))>>]
              /\ Val(tensors', cur'[1]) =
                     [shape |-> tensors[ret'.args[1]].shape,
                      rawData |-> [j \in 1..Len(tensors[ret'.args[1]].rawData) |->
                                      RAdd(tensors[ret'.args[1]].rawData[j],
                                           optimizers'[ret'.k].velocity[1].rawData[j])]]
              /\ ~tensors[cur'[1]].live
              /\ \A id \in DOMAIN tensors : tensors[id].live => tensors'[id] = tensors[id]
              /\ \A k \in 1..Len(optimizers) : k # ret'.k => optimizers'[k] = optimizers[k]]_vars

\* A later Update of a momentum optimizer that already had a velocity, on
\* the parameters its last Update returned, while the other optimizer has
\* a different velocity.
C20_Witness ==
    /\ ret.op = "Update" /\ ret.ok /\ ret.n = MaxOptCalls
    /\ optimizers[ret.k].kind = "momentum"
    /\ ret.args[1] \notin SeqRange(xs)
    /\ \E k \in 1..Len(optimizers) :
           /\ k # ret.k
           /\ optimizers[k].velocity # optimizers[ret.k].velocity
           /\ optimizers[k].velocity # <<NewTensor(tensors[xs[1]].shape).t>>

\* ------------------------------------- SGD beside MomentumSGD with momentum 0
\* The largest power of two of float64: twice it is +Inf.
Huge == <<1, MaxExp - 1>>

LearningRates == {Half, R(1), Huge}
GradientData == {<<R(2), R(-1)>>, <<R(0), R(1)>>, <<R(-1), R(-1)>>}

\* Three optimizers for one shape, each with its own copy of the same
\* parameters: one of SGD(lr), one of MomentumSGD(lr, 0), and a momentumSGD
\* whose momentum field is 0.
InitMomentumZero ==
    \E shape \in OptShapes, lr \in LearningRates :
        /\ tensors = PutAll(EmptyHeap,
                            [i \in 1..3 |-> TensorFromSlice(shape, SampleData(Elements(shape), 1)).t],
                            1, <<>>).h
        /\ xs = <<1, 2, 3>> /\ ts = <<>> /\ cur = <<>>
        /\ optimizers = <<Create(SGD(lr), shape),
                          Create(MomentumSGD(lr, R(0)), shape),
                          [kind |-> "momentum", lr |-> lr, momentum |-> R(0),
                           velocity |-> <<NewTensor(shape).t>>]>>
        /\ ret = [op |-> "Create", ok |-> TRUE, n |-> 0, finite |-> TRUE]
        /\ slices = <<>>
        /\ inputShape = <<>> /\ layers = <<>> /\ loss = <<>> /\ buildErr = NotBuilt
        /\ fit = NoFit
        /\ trained = <<>>

\* Every product grads * lr of g is finite.
FiniteStep(g, lr) == \A j \in 1..Len(g.rawData) : IsFinite(RMul(g.rawData[j], lr))

\* params[k] = optimizers[k].Update(params[k], g) for every k gave rs.
UpdatesReturn(g, rs) ==
    /\ optimizers' = [k \in 1..Len(optimizers) |-> rs[k].o]
    /\ tensors' = PutAll(EmptyHeap, [k \in 1..Len(rs) |-> rs[k].params], 1, <<>>).h
    /\ ret' = [op |-> "Update", ok |-> TRUE, n |-> ret.n + 1,
               finite |-> ret.finite /\ FiniteStep(g, optimizers[1].lr)]

\* One more gradient, given to each optimizer with its own parameters.
UpdateEach ==
    \E data \in GradientData :
        /\ ret.n < MaxOptCalls
        /\ UpdatesReturn(TensorFromSlice(tensors[xs[1]].shape, data).t,
                         [k \in 1..Len(optimizers) |->
                             OptimizerUpdate(optimizers[k], Val(tensors, xs[k]),
                                             TensorFromSlice(tensors[xs[1]].shape, data).t)])
        /\ UNCHANGED <<slices, inputShape, layers, loss, buildErr, xs, ts, cur, fit, trained>>

NextMomentumZero == UpdateEach

SpecMomentumZero == InitMomentumZero /\ [][NextMomentumZero]_vars

MaxSteps == 2

StepArchitectures ==
    Architectures \cup {[shape |-> <<2>>, add |-> <<Softmax, Dropout(Half)>>],
                        [shape |-> <<2>>, add |-> <<Dense(2), Dense(1)>>]}

\* What a layer holds of its last Forward, by value.
Cached(h, l) ==
    [inputs |-> Vals(h, l.inputs), outputs |-> Vals(h, l.outputs), mask |-> l.mask]

\* A Built model and a batch; s.Update(x, t) is about to run layer 1's
\* Forward.  ret.log lists the operations done so far with the batch each
\* was given and the batch it returned, ret.fwd the weight and bias each
\* layer had at its last Forward and ret.cache what it cached then.
InitStep ==
    /\ \E arch \in StepArchitectures, b \in 1..MaxBatch, factory \in Factories :
           InitModel(arch.shape,
                     Build(AddLayers(NewSequential(arch.shape), arch.add, 1), arch.shape,
                           <<>>, CrossEntropyError, factory, <<RDiv(R(1), R(128)), R(0)>>),
                     arch.shape, b)
    /\ ret = [pc |-> "Forward", i |-> 1, n |-> 1, ok |-> TRUE, arg |-> xs, log |-> <<>>,
              fwd |-> [i \in 1..Len(layers) |-> <<>>],
              cache |-> [i \in 1..Len(layers) |-> <<>>]]

\* An Update that runs each layer's Update before its Backward.
NextOpUpdateFirst(op, i, n) ==
    CASE op = "Forward" -> IF i < n THEN <<"Forward", i + 1>> ELSE <<"LossForward", 0>>
      [] op = "LossForward" -> <<"LossBackward", 0>>
      [] op = "LossBackward" -> <<"Update", n>>
      [] op = "Update" -> <<"Backward", i>>
      [] op = "Backward" -> IF i > 1 THEN <<"Update", i - 1>> ELSE <<"Return", 0>>

\* The operation Sequential.Update runs after op on layer i, of n layers.
NextOp(op, i, n) ==
    CASE op = "Forward" -> IF i < n THEN <<"Forward", i + 1>> ELSE <<"LossForward", 0>>
      [] op = "LossForward" -> <<"LossBackward", 0>>
      [] op = "LossBackward" -> <<"Backward", n>>
      [] op = "Backward" -> <<"Update", i>>
      [] op = "Update" -> IF i > 1 THEN <<"Backward", i - 1>> ELSE <<"Return", 0>>

\* Sequential.Update goes on after an operation that gave the batch out,
\* or the program ends with its panic.
StepDone(ok, h, ls, c, out) ==
    /\ IF ok
       THEN /\ layers' = ls
            /\ loss' = c
            /\ tensors' = Sweep(h, LiveIds(xs, ts, out, ls))
            /\ ret' = [ret EXCEPT !.pc = NextOp(ret.pc, ret.i, Len(layers))[1],
                                  !.i = NextOp(ret.pc, ret.i, Len(layers))[2],
                                  !.arg = out,
                                  !.log = Append(ret.log, [op |-> ret.pc, i |-> ret.i,
                                                           arg |-> ret.arg, out |-> out]),
                                  !.fwd = IF ret.pc = "Forward"
                                          THEN [ret.fwd EXCEPT ![ret.i] =
                                                   <<ls[ret.i].weight, ls[ret.i].bias>>]
                                          ELSE ret.fwd,
                                  !.cache = IF ret.pc = "Forward"
                                            THEN [ret.cache EXCEPT ![ret.i] = <<Cached(h, ls[ret.i])>>]
                                            ELSE ret.cache]
       ELSE /\ ret' = [ret EXCEPT !.ok = FALSE]
            /\ UNCHANGED <<layers, loss, tensors>>
    /\ UNCHANGED <<slices, inputShape, buildErr, xs, ts, cur, fit, trained, optimizers>>

\* x = layer.Forward(x)
StepForward ==
    /\ ret.ok /\ ret.pc = "Forward"
    /\ \E r \in LayerForwardSet(tensors, layers[ret.i], ret.arg) :
           IF r.ok THEN StepDone(TRUE, r.h, [layers EXCEPT ![ret.i] = r.l], loss, r.out)
           ELSE StepDone(FALSE, tensors, layers, loss, <<>>)

\* s.loss.Forward(x, t)
StepLossForward ==
    /\ ret.ok /\ ret.pc = "LossForward"
    /\ LET r == crossEntropyForward(loss[1], Vals(tensors, ret.arg), Vals(tensors, ts))
       IN  IF r.ok THEN StepDone(TRUE, tensors, layers, <<r.c>>, ret.arg)
           ELSE StepDone(FALSE, tensors, layers, loss, <<>>)

\* dout := s.loss.Backward()
StepLossBackward ==
    /\ ret.ok /\ ret.pc = "LossBackward"
    /\ LET r == crossEntropyBackward(loss[1])
       IN  IF r.ok
           THEN StepDone(TRUE, PutAll(tensors, r.d, 1, <<>>).h, layers, loss,
                         PutAll(tensors, r.d, 1, <<>>).ids)
           ELSE StepDone(FALSE, tensors, layers, loss, <<>>)

\* dout = s.layers[i].Backward(dout)
StepBackward ==
    /\ ret.ok /\ ret.pc = "Backward"
    /\ LET r == LayerBackward(tensors, layers[ret.i], ret.arg)
       IN  IF r.ok THEN StepDone(TRUE, r.h, [layers EXCEPT ![ret.i] = r.l], loss, r.out)
           ELSE StepDone(FALSE, tensors, layers, loss, <<>>)

\* s.layers[i].Update()
StepUpdate ==
    /\ ret.ok /\ ret.pc = "Update"
    /\ LET u == LayerUpdate(layers[ret.i])
       IN  IF u.ok THEN StepDone(TRUE, tensors, [layers EXCEPT ![ret.i] = u.l], loss, ret.arg)
           ELSE StepDone(FALSE, tensors, layers, loss, <<>>)

\* Update has returned; the caller calls s.Update(x, t) once more.
StepAgain ==
    /\ ret.ok /\ ret.pc = "Return" /\ ret.n < MaxSteps
    /\ ret' = [ret EXCEPT !.pc = "Forward", !.i = 1, !.n = ret.n + 1, !.arg = xs]
    /\ tensors' = Sweep(tensors, LiveIds(xs, ts, <<>>, layers))
    /\ UNCHANGED <<slices, inputShape, layers, loss, buildErr, xs, ts, cur, fit, trained, optimizers>>

NextStep ==
    \/ StepForward
    \/ StepLossForward
    \/ StepLossBackward
    \/ StepBackward
    \/ StepUpdate
    \/ StepAgain

SpecStep == InitStep /\ [][NextStep]_vars

\* The k-th operation of a training step on n layers (the Input layer is
\* layer 1): Forward 1..n, the loss Forward and Backward, then Backward
\* and Update of n, of n - 1, .. of 1.
StepOrder(n, k) ==
    IF k <= n THEN <<"Forward", k>>
    ELSE IF k = n + 1 THEN <<"LossForward", 0>>
    ELSE IF k = n + 2 THEN <<"LossBackward", 0>>
    ELSE <<IF (k - n - 3) % 2 = 0 THEN "Backward" ELSE "Update", n - ((k - n - 3) \div 2)>>

StepLength(n) == 3 * n + 2

\* The batch the k-th operation so far must have been given.
FedTo(k) ==
    IF ret.log[k].op = "Forward" /\ ret.log[k].i = 1 THEN xs
    ELSE IF ret.log[k].op = "Backward" /\ ret.log[k].i < Len(layers) THEN ret.log[k - 2].out
    ELSE ret.log[k - 1].out

\* C22: the operations of the training steps run in the order Forward of
\* every layer, loss Forward, loss Backward, then Backward and Update of
\* each layer from the last to the first; each is fed what the one before
\* it in the chain returned; a layer's Backward runs with the weight and
\* bias it had at its Forward; a step only starts when the one before it
\* has run all its Updates.
C22_TrainingStepOrder ==
    /\ \A k \in 1..Len(ret.log) :
           /\ <<ret.log[k].op, ret.log[k].i>> =
                  StepOrder(Len(layers), ((k - 1) % StepLength(Len(layers))) + 1)
           /\ ret.log[k].op \in {"Forward", "LossForward", "Backward"} => ret.log[k].arg = FedTo(k)
    /\ (ret.ok /\ ret.pc = "Backward") =>
           <<layers[ret.i].weight, layers[ret.i].bias>> = ret.fwd[ret.i]
    /\ (ret.pc = "Forward" /\ ret.i = 1) => Len(ret.log) = (ret.n - 1) * StepLength(Len(layers))

\* The second step is about to run the Backward of a Dense layer whose
\* weight the first step changed, after the layer behind it was updated.
C22_Witness ==
    /\ ret.ok /\ ret.pc = "Backward" /\ ret.n = 2 /\ ret.i = 2
    /\ layers[2].kind = "dense" /\ layers[3].kind = "dense"
    /\ layers[2].weight # <<[shape |-> <<2, 2>>, rawData |-> Draw(<<RDiv(R(1), R(128)), R(0)>>, 0, 4)]>>
    /\ ret.log[Len(ret.log)].op = "Update" /\ ret.log[Len(ret.log)].i = 3

\* Layer i has run its Forward in the current step and not yet its
\* Backward.
AwaitsBackward(i) ==
    \/ ret.pc = "Forward" /\ ret.i > i
    \/ ret.pc \in {"LossForward", "LossBackward"}
    \/ ret.pc = "Backward" /\ ret.i >= i

\* C27: from a layer's Forward to its Backward in a training step, what
\* the layer cached (the values of its inputs and outputs, its mask) stays
\* as its Forward left it.
C27_CachesStayAsForwardLeftThem ==
    \A i \in 1..Len(layers) :
        (ret.ok /\ AwaitsBackward(i)) => <<Cached(tensors, layers[i])>> = ret.cache[i]

\* C28: the training steps leave the caller's inputs x and targets t as
\* the caller made them.
C28_TrainingKeepsTheTrainingSet ==
    /\ \A i \in 1..Len(xs) :
           Val(tensors, xs[i]) = TensorFromSlice(inputShape, SampleData(Elements(inputShape), i)).t
    /\ \A i \in 1..Len(ts) :
           Val(tensors, ts[i]) =
               TensorFromSlice(OutputShapeOr(layers, inputShape),
                               TargetData(Elements(OutputShapeOr(layers, inputShape)), i)).t

\* ------------------------------------- the worker goroutines of an operation
\* Every operation below makes its slices, starts one goroutine per sample
\* and waits for them (wg.Wait) before it returns.  A nil slot of a slice
\* of tensors is 0 (NilT or <<>> for a slot held by value).
WorkerLayers == {Dense(2), ReLU, Sigmoid, Softmax}

NilSlots(n) == [i \in 1..n |-> 0]
NilValues(n) == [i \in 1..n |-> NilT]
NilMasks(n) == [i \in 1..n |-> <<>>]

\* mutex.Lock() goes through when nobody holds the mutex.
CanLockAlways(holder) == TRUE
CanLock(holder) == holder = 0

SumOps == {"loss.Call", "loss.Forward"}

NoWorkers ==
    [op |-> "", main |-> "idle", ok |-> TRUE, calls |-> 0, n |-> 0, pc |-> <<>>, wg |-> 0,
     mutex |-> 0, sum |-> R(0), local |-> <<>>, d |-> <<>>, order |-> <<>>, v |-> R(0),
     arg |-> <<>>, out |-> <<>>, acc |-> {}]

\* A Built model of one layer after the Input layer, a batch x of inputs,
\* a batch y of predictions (the batch last returned) and a batch t of
\* targets, which also serves as a batch of gradients.
InitWorkers ==
    \E layer \in WorkerLayers, b \in 1..MaxBatch, bt \in 1..MaxBatch, factory \in {SGD(R(1))} :
        /\ InitWith(<<2>>,
                    Build(AddLayers(NewSequential(<<2>>), <<layer>>, 1), <<2>>, <<>>,
                          CrossEntropyError, factory, <<RDiv(R(1), R(128)), R(0)>>),
                    [i \in 1..(b + b) |->
                        TensorFromSlice(<<2>>, IF i <= b THEN SampleData(2, i)
                                               ELSE PredictionData(2, i - b)).t],
                    [i \in 1..bt |-> TensorFromSlice(<<2>>, TargetData(2, i)).t])
        /\ ret = [NoWorkers EXCEPT !.out = [i \in 1..b |-> b + i]]

\* The caller's batches: x is the first half of xs, y the batch returned
\* last (at first the second half of xs).
BatchX == SubSeq(xs, 1, Len(xs) \div 2)
BatchY == ret.out

\* What main does before it starts the goroutines of op on the batch arg:
\* [l, c, out, n] are the layer, the loss, the slice the operation will
\* return and the number of goroutines.
Prologue(op, l, c, arg) ==
    CASE op = "dense.Forward" ->
             [l |-> [l EXCEPT !.inputs = NilSlots(Len(arg))], c |-> c,
              out |-> NilSlots(Len(arg)), n |-> Len(arg)]
      [] op = "dense.Backward" ->
             [l |-> [l EXCEPT !.dw = NilValues(Len(arg)), !.db = NilValues(Len(arg))], c |-> c,
              out |-> NilSlots(Len(arg)), n |-> Len(arg)]
      [] op = "relu.Forward" ->
             [l |-> [l EXCEPT !.mask = NilMasks(Len(arg))], c |-> c,
              out |-> NilSlots(Len(arg)), n |-> Len(arg)]
      [] op = "sigmoid.Forward" ->
             [l |-> [l EXCEPT !.outputs = NilSlots(Len(arg))], c |-> c,
              out |-> NilSlots(Len(arg)), n |-> Len(arg)]
      [] op = "softmax.Backward" ->
             [l |-> l, c |-> c, out |-> arg, n |-> Len(l.outputs)]
      [] op = "loss.Call" ->
             [l |-> l, c |-> c, out |-> arg, n |-> Len(ts)]
      [] op = "loss.Forward" ->
             [l |-> l, c |-> [y |-> NilValues(Len(arg)), t |-> NilValues(Len(ts))],
              out |-> arg, n |-> Len(ts)]
      [] op = "loss.Backward" ->
             [l |-> l, c |-> c, out |-> NilSlots(Len(c.y)), n |-> Len(c.y)]
      [] OTHER ->
             [l |-> l, c |-> c, out |-> NilSlots(Len(arg)), n |-> Len(arg)]

\* The outcome of a goroutine that ends with outputs[i] = r.t, after the
\* accesses acc: the tensor is allocated and its reference stored in slot i.
Store(h, l, c, out, i, r, acc) ==
    IF ~r.ok THEN Panic
    ELSE Let(PutAll(h, <<r.t>>, 1, <<>>), LAMBDA p :
             [ok |-> TRUE, h |-> p.h, l |-> l, c |-> c, out |-> [out EXCEPT ![i] = p.ids[1]],
              d |-> R(0), acc |-> acc \cup {<<"w", "out", i>>}])

\* The goroutine of a loss operation up to its d := ...
Contribution(h, l, c, out, y, t, i, acc) ==
    IF i > Len(y) \/ i > Len(t) THEN Panic
    ELSE IF ~MulTensor(y[i], t[i]).ok THEN Panic
    ELSE [ok |-> TRUE, h |-> h, l |-> l, c |-> c, out |-> out,
          d |-> crossEntropySample(y[i], t[i]),
          acc |-> acc \cup {<<"r", "y", i>>, <<"r", "t", i>>}]

\* The body of goroutine i of op, up to its use of the mutex or its
\* wg.Done(): arg is the batch the operation was given, out the slice it
\* returns.  acc lists what the goroutine reads ("r") and writes ("w").
WorkerBody(op, h, l, c, out, arg, i) ==
    CASE op \in {"dense.Call", "dense.Forward"} ->
             Store(h, IF op = "dense.Forward" THEN [l EXCEPT !.inputs[i] = arg[i]] ELSE l,
                   c, out, i, denseOut(l, Val(h, arg[i])),
                   {<<"r", "arg", i>>, <<"r", "weight", 0>>, <<"r", "bias", 0>>}
                       \cup (IF op = "dense.Forward" THEN {<<"w", "inputs", i>>} ELSE {}))
      [] op = "dense.Backward" ->
             IF i > Len(l.inputs) THEN Panic
             ELSE IF l.inputs[i] = 0 THEN Panic
             ELSE Bind(denseDw(h, l, i, Val(h, arg[i])), LAMBDA dw :
                      Store(h, [l EXCEPT !.db[i] = Clone(Val(h, arg[i])), !.dw[i] = dw.t],
                            c, out, i, denseDx(l, Val(h, arg[i])),
                            {<<"r", "arg", i>>, <<"r", "weight", 0>>, <<"r", "inputs", i>>,
                             <<"w", "db", i>>, <<"w", "dw", i>>}))
      [] op = "relu.Call" ->
             Store(h, l, c, out, i, reluOut(Val(h, arg[i])), {<<"r", "arg", i>>})
      [] op = "relu.Forward" ->
             Store(h, [l EXCEPT !.mask[i] = reluMask(Val(h, arg[i]))], c, out, i,
                   reluOut(Val(h, arg[i])), {<<"r", "arg", i>>, <<"w", "mask", i>>})
      [] op = "relu.Backward" ->
             Store(h, l, c, out, i, reluDx(l, i, Val(h, arg[i])),
                   {<<"r", "arg", i>>, <<"r", "mask", i>>})
      [] op = "sigmoid.Call" ->
             Store(h, l, c, out, i, sigmoidOut(Val(h, arg[i])), {<<"r", "arg", i>>})
      [] op = "sigmoid.Forward" ->
             Bind(Store(h, l, c, out, i, sigmoidOut(Val(h, arg[i])), {<<"r", "arg", i>>}),
                  LAMBDA r : [r EXCEPT !.l.outputs = r.out,
                                       !.acc = r.acc \cup {<<"w", "outputs", i>>}])
      [] op = "sigmoid.Backward" ->
             IF i > Len(l.outputs) THEN Panic
             ELSE IF l.outputs[i] = 0 THEN Panic
             ELSE Store(h, l, c, out, i, sigmoidDx(h, l, i, Val(h, arg[i])),
                        {<<"r", "arg", i>>, <<"r", "outputs", i>>})
      [] op \in {"softmax.Call", "softmax.Forward"} ->
             Store(h, l, c, out, i, softmaxOut(Val(h, arg[i])), {<<"r", "arg", i>>})
      [] op = "softmax.Backward" ->
             IF i > Len(out) THEN Panic
             ELSE IF l.outputs[i] = 0 \/ out[i] = 0 THEN Panic
             ELSE Store(h, l, c, out, i,
                        Then(MulTensor(Val(h, out[i]), Val(h, l.outputs[i])),
                             LAMBDA a : AddTensor(a, Val(h, l.outputs[i]))),
                        {<<"r", "out", i>>, <<"r", "outputs", i>>})
      [] op = "loss.Call" ->
             Contribution(h, l, c, out, Vals(h, arg), Vals(h, ts), i, {})
      [] op = "loss.Forward" ->
             IF i > Len(arg) THEN Panic
             ELSE Contribution(h, l,
                               [c EXCEPT !.y[i] = Clone(Val(h, arg[i])),
                                         !.t[i] = Clone(Val(h, ts[i]))],
                               out, Vals(h, arg), Vals(h, ts), i,
                               {<<"w", "c.y", i>>, <<"w", "c.t", i>>})
      [] op = "loss.Backward" ->
             IF i > Len(c.t) THEN Panic
             ELSE IF c.y[i] = NilT \/ c.t[i] = NilT THEN Panic
             ELSE Store(h, l, c, out, i,
                        Then(DivTensor(c.t[i], c.y[i]), LAMBDA q : Ok(MulBroadCast(q, R(-1)))),
                        {<<"r", "c.y", i>>, <<"r", "c.t", i>>})

\* The operations a caller may run next: Call or Forward of the layer or of
\* the loss at first, then the Backward of what ran Forward.
OpsNow ==
    IF ret.calls = 0
    THEN {layers[2].kind \o ".Call", layers[2].kind \o ".Forward", "loss.Call", "loss.Forward"}
    ELSE IF ret.op = layers[2].kind \o ".Forward" THEN {layers[2].kind \o ".Backward"}
    ELSE IF ret.op = "loss.Forward" THEN {"loss.Backward"}
    ELSE {}

ArgOf(op) ==
    IF op \in {"loss.Call", "loss.Forward"} THEN BatchY
    ELSE IF op \in {"dense.Backward", "relu.Backward", "sigmoid.Backward", "softmax.Backward"}
    THEN ts
    ELSE BatchX

\* The caller calls op; main makes the slices and starts the goroutines.
MainStart ==
    \E op \in OpsNow :
        /\ ret.ok /\ ret.main = "idle"
        /\ LET p == Prologue(op, layers[2], loss[1], ArgOf(op))
           IN  /\ layers' = [layers EXCEPT ![2] = p.l]
               /\ loss' = <<p.c>>
               /\ ret' = [ret EXCEPT !.op = op, !.main = "wait", !.n = p.n,
                                     !.pc = [i \in 1..p.n |-> "run"], !.wg = p.n,
                                     !.mutex = 0, !.sum = R(0),
                                     !.local = [i \in 1..p.n |-> R(0)],
                                     !.d = [i \in 1..p.n |-> R(0)],
                                     !.order = <<>>, !.arg = ArgOf(op), !.out = p.out,
                                     !.acc = {}]
        /\ UNCHANGED <<tensors, slices, inputShape, buildErr, xs, ts, cur, fit, trained, optimizers>>

\* Goroutine i runs its body; a panic in it ends the program.
WorkerRun ==
    \E i \in 1..ret.n :
        /\ ret.ok /\ ret.pc[i] = "run"
        /\ LET r == WorkerBody(ret.op, tensors, layers[2], loss[1], ret.out, ret.arg, i)
           IN  IF r.ok
               THEN /\ tensors' = r.h
                    /\ layers' = [layers EXCEPT ![2] = r.l]
                    /\ loss' = <<r.c>>
                    /\ ret' = [ret EXCEPT !.pc[i] = IF ret.op \in SumOps THEN "lock" ELSE "done",
                                          !.d[i] = r.d, !.out = r.out,
                                          !.acc = ret.acc \cup {<<i, a>> : a \in r.acc}]
               ELSE /\ ret' = [ret EXCEPT !.ok = FALSE]
                    /\ UNCHANGED <<tensors, layers, loss>>
        /\ UNCHANGED <<slices, inputShape, buildErr, xs, ts, cur, fit, trained, optimizers>>

\* mutex.Lock()
WorkerLock ==
    \E i \in 1..ret.n :
        /\ ret.ok /\ ret.pc[i] = "lock" /\ CanLock(ret.mutex)
        /\ ret' = [ret EXCEPT !.pc[i] = "read", !.mutex = i]
        /\ UNCHANGED <<tensors, layers, loss, slices, inputShape, buildErr, xs, ts, cur, fit,
                       trained, optimizers>>

\* sum += d reads sum ...
WorkerRead ==
    \E i \in 1..ret.n :
        /\ ret.ok /\ ret.pc[i] = "read"
        /\ ret' = [ret EXCEPT !.pc[i] = "write", !.local[i] = ret.sum]
        /\ UNCHANGED <<tensors, layers, loss, slices, inputShape, buildErr, xs, ts, cur, fit,
                       trained, optimizers>>

\* ... and writes the sum of what it read and d.
WorkerWrite ==
    \E i \in 1..ret.n :
        /\ ret.ok /\ ret.pc[i] = "write"
        /\ ret' = [ret EXCEPT !.pc[i] = "unlock", !.sum = RAdd(ret.local[i], ret.d[i]),
                              !.order = Append(ret.order, i)]
        /\ UNCHANGED <<tensors, layers, loss, slices, inputShape, buildErr, xs, ts, cur, fit,
                       trained, optimizers>>

\* mutex.Unlock()
WorkerUnlock ==
    \E i \in 1..ret.n :
        /\ ret.ok /\ ret.pc[i] = "unlock"
        /\ ret' = [ret EXCEPT !.pc[i] = "done", !.mutex = 0]
        /\ UNCHANGED <<tensors, layers, loss, slices, inputShape, buildErr, xs, ts, cur, fit,
                       trained, optimizers>>

\* wg.Done()
WorkerDone ==
    \E i \in 1..ret.n :
        /\ ret.ok /\ ret.pc[i] = "done"
        /\ ret' = [ret EXCEPT !.pc[i] = "exit", !.wg = ret.wg - 1]
        /\ UNCHANGED <<tensors, layers, loss, slices, inputShape, buildErr, xs, ts, cur, fit,
                       trained, optimizers>>

\* wg.Wait() is over: main returns (softmax.Forward stores s.outputs, the
\* loss returns sum / float64(len(t))).
MainReturn ==
    /\ ret.ok /\ ret.main = "wait" /\ ret.wg = 0
    /\ ret' = [ret EXCEPT !.main = "idle", !.calls = ret.calls + 1,
                          !.v = IF ret.op \in SumOps THEN RDiv(ret.sum, R(Len(ts))) ELSE ret.v]
    /\ layers' = IF ret.op = "softmax.Forward" THEN [layers EXCEPT ![2].outputs = ret.out]
                 ELSE layers
    /\ UNCHANGED <<tensors, loss, slices, inputShape, buildErr, xs, ts, cur, fit, trained,
                   optimizers>>

NextWorkers ==
    \/ MainStart
    \/ WorkerRun
    \/ WorkerLock
    \/ WorkerRead
    \/ WorkerWrite
    \/ WorkerUnlock
    \/ WorkerDone
    \/ MainReturn

SpecWorkers == InitWorkers /\ [][NextWorkers]_vars

\* sum after the contributions of the goroutines q[1], .., q[k] were added
\* in that order.
RECURSIVE SumInOrder(_, _)
SumInOrder(q, k) == IF k = 0 THEN R(0) ELSE RAdd(SumInOrder(q, k - 1), ret.d[q[k]])

Returned == ret.ok /\ ret.main = "idle" /\ ret.calls > 0

\* C23: in Call and Forward of the loss, whatever the interleaving, each
\* goroutine adds its contribution to sum once and no addition is lost
\* (with the mutex free, sum is the sum of the contributions added so far);
\* main reads sum only when every goroutine has finished, and returns the
\* sum of the n contributions divided by n.
C23_LossSumIsRaceFree ==
    ret.op \in SumOps =>
        /\ \A j, k \in 1..Len(ret.order) : ret.order[j] = ret.order[k] => j = k
        /\ {ret.order[k] : k \in 1..Len(ret.order)} =
               {i \in 1..ret.n : ret.pc[i] \in {"unlock", "done", "exit"}}
        /\ ret.mutex = 0 => ret.sum = SumInOrder(ret.order, Len(ret.order))
        /\ Returned =>
               /\ \A i \in 1..ret.n : ret.pc[i] = "exit"
               /\ Len(ret.order) = ret.n
               /\ ret.v = RDiv(SumInOrder(ret.order, ret.n), R(ret.n))

\* Forward of the loss has returned the mean of several contributions that
\* were added in another order than the goroutines were started.
C23_Witness ==
    /\ Returned /\ ret.op = "loss.Forward" /\ ret.n = MaxBatch
    /\ ret.order[1] = ret.n
    /\ ret.d[1] # ret.d[2]
    /\ IsFinite(ret.v) /\ ret.v # R(0)

\* The slices goroutines store into, by slot.
SlotNames == {"out", "inputs", "outputs", "mask", "dw", "db", "c.y", "c.t"}

\* No slot of the returned slice, of the layer's caches or of the loss's
\* caches is nil.
AllFilled ==
    /\ \A i \in 1..Len(ret.out) : ret.out[i] # 0
    /\ \A i \in 1..Len(layers[2].inputs) : layers[2].inputs[i] # 0
    /\ \A i \in 1..Len(layers[2].outputs) : layers[2].outputs[i] # 0
    /\ \A i \in 1..Len(layers[2].mask) : layers[2].mask[i] # <<>>
    /\ \A i \in 1..Len(layers[2].dw) : layers[2].dw[i] # NilT
    /\ \A i \in 1..Len(layers[2].db) : layers[2].db[i] # NilT
    /\ \A i \in 1..Len(loss[1].y) : loss[1].y[i] # NilT
    /\ \A i \in 1..Len(loss[1].t) : loss[1].t[i] # NilT

\* C24: goroutine i writes only slot i of the slices; no goroutine writes
\* what another reads or writes; the weight and the bias are only read; the
\* operation returns when every goroutine has finished, and then no slot
\* of the returned slice or of a cache is left nil.
C24_WorkersKeepToTheirSlots ==
    /\ \A a \in ret.acc :
           a[2][1] = "w" => a[2][2] \in SlotNames /\ a[2][3] = a[1]
    /\ \A a, b \in ret.acc :
           (a[1] # b[1] /\ a[2][2] = b[2][2] /\ a[2][3] = b[2][3]) =>
               (a[2][1] = "r" /\ b[2][1] = "r")
    /\ Returned => (\A i \in 1..ret.n : ret.pc[i] = "exit") /\ AllFilled

\* ------------------------------------------ the loop of dropout.Forward
Rates == {R(0), Half, R(1), RNeg(Half)}
DropoutShapes == {<<1>>, <<2>>, <<1, 2>>}

\* The positions rand.Intn may give for the shapes above.
Positions == 0..(MaxDim - 1)

\* A Dropout layer after Init, given a non-empty batch: Forward has made
\* d.mask, computed units and active, and is about to take the first
\* sample.  ret holds the locals of Forward.
InitDropout ==
    \E rate \in Rates, shape \in DropoutShapes, b \in 1..MaxBatch :
        /\ InitWith(shape,
                    [layers |-> <<[passInit(Dropout(rate), shape, 0).l EXCEPT !.mask = NilMasks(b)]>>,
                     err |-> NotBuilt, loss |-> <<>>],
                    [i \in 1..b |-> TensorFromSlice(shape, SampleData(Elements(shape), i)).t],
                    <<>>)
        /\ ret = [pc |-> "sample", ok |-> TRUE, i |-> 1, n |-> 0, index |-> 0,
                  units |-> Elements(shape),
                  active |-> dropoutActive(Dropout(rate), Elements(shape)), mask |-> <<>>]

\* for i, input := range inputs { mask := make([]bool, units); n := 0 ...
\* and, after the last sample, return inputs.
DropoutSample ==
    /\ ret.pc = "sample"
    /\ IF ret.i > Len(xs)
       THEN /\ ret' = [ret EXCEPT !.pc = "returned"]
            /\ cur' = xs
       ELSE /\ ret' = [ret EXCEPT !.pc = "loop", !.n = 0,
                                  !.mask = [j \in 1..ret.units |-> FALSE]]
            /\ cur' = cur
    /\ UNCHANGED <<tensors, layers, loss, slices, inputShape, buildErr, xs, ts, fit, trained,
                   optimizers>>

\* for n < active { ... }; d.mask[i] = mask
DropoutLoop ==
    /\ ret.pc = "loop"
    /\ IF ret.n < ret.active
       THEN /\ ret' = [ret EXCEPT !.pc = "draw"]
            /\ layers' = layers
       ELSE /\ ret' = [ret EXCEPT !.pc = "sample", !.i = ret.i + 1]
            /\ layers' = [layers EXCEPT ![1].mask[ret.i] = ret.mask]
    /\ UNCHANGED <<tensors, loss, slices, inputShape, buildErr, xs, ts, cur, fit, trained,
                   optimizers>>

\* index := rand.Intn(units) gives j
DropoutDraw(j) ==
    /\ ret.pc = "draw" /\ j < ret.units
    /\ ret' = [ret EXCEPT !.pc = "check", !.index = j]
    /\ UNCHANGED <<tensors, layers, loss, slices, inputShape, buildErr, xs, ts, cur, fit,
                   trained, optimizers>>

\* if mask[index] { continue }; input.rawData[index] = 0; mask[index] = true; n++
DropoutCheck ==
    /\ ret.pc = "check"
    /\ IF ret.mask[ret.index + 1]
       THEN /\ ret' = [ret EXCEPT !.pc = "loop"]
            /\ tensors' = tensors
       ELSE /\ ret' = [ret EXCEPT !.pc = "loop", !.n = ret.n + 1, !.mask[ret.index + 1] = TRUE]
            /\ tensors' = ZeroAt(tensors, xs[ret.i], {ret.index})
    /\ UNCHANGED <<layers, loss, slices, inputShape, buildErr, xs, ts, cur, fit, trained,
                   optimizers>>

DropoutStepOn == DropoutSample \/ DropoutLoop \/ DropoutCheck

NextDropout == DropoutStepOn \/ \E j \in Positions : DropoutDraw(j)

SpecDropout == InitDropout /\ [][NextDropout]_vars

\* Forward keeps running, and the random generator is fair: a position that
\* can be drawn again and again is drawn in the end.
SpecDropoutFair ==
    /\ SpecDropout
    /\ WF_vars(DropoutStepOn)
    /\ \A j \in Positions : SF_vars(DropoutDraw(j))

\* C25: Forward of Dropout returns for every rate and every non-empty
\* batch.
C25_DropoutForwardReturns == <>(ret.pc = "returned")

====
